---- MODULE Spec2Model ----
(***************************************************************************)
(* Verification model of fm-agent-service: the investigation state machine *)
(* (core/investigation/milestone_engine.py), the hypothesis confidence     *)
(* engine (core/investigation/hypothesis_manager.py) and the hierarchical  *)
(* memory manager (core/investigation/memory_manager.py).                  *)
(*                                                                         *)
(* Conventions.  Likelihoods and confidences are integers in thousandths   *)
(* (0.70 is 700); a product that is no whole thousandth is rounded down.   *)
(* A string argument (user message, LLM response) is the set of the        *)
(* keywords the code searches in it.  A timestamp is the turn it was taken *)
(* in.  An optional object is a record whose first field says whether it   *)
(* is present.                                                             *)
(***************************************************************************)
EXTENDS Integers, Sequences, FiniteSets, TLC

VARIABLES
    case,   \* the Case as the case service holds it (get_case / update_case)
    last,   \* what the latest operation on the case was and what it reported
    hyp,    \* the Hypothesis object the hypothesis engine operates on
    hlast,  \* the latest hypothesis-engine operation and its inputs
    hlist,  \* a hypothesis list handed to the list-level queries
    hres,   \* the result of the latest list-level query
    mem,    \* the HierarchicalMemory object
    mlast,  \* the latest memory operation and its inputs
    llm,    \* the MultiProviderLLM object and its latest generate call
    req     \* the agent_chat requests in flight

vars == <<case, last, hyp, hlast, hlist, hres, mem, mlast, llm, req>>
ioVars == <<llm, req>>
caseVars == <<case, last>>
hypVars == <<hyp, hlast>>
listVars == <<hlist, hres>>
memVars == <<mem, mlast>>

-----------------------------------------------------------------------------
(* Bounds of the model *)

MaxTurns == 4
MaxAttachments == 1
MaxUploads == 2

(* Program constants *)

DEGRADED_AFTER_TURNS == 3

-----------------------------------------------------------------------------
(* Case status machine: milestone_engine.py *)

CaseStatus == {"consulting", "investigating", "resolved", "closed"}
\* a status value _build_prompt has no branch for
UnknownStatus == "archived"

MilestoneNames ==
    {"symptom_verified", "scope_assessed", "timeline_established",
     "changes_identified", "root_cause_identified", "solution_proposed",
     "solution_applied", "solution_verified"}

VerificationMilestones ==
    {"symptom_verified", "scope_assessed", "timeline_established",
     "changes_identified"}

\* InvestigationProgress(): the fresh milestone set
InvestigationProgress ==
    [flags |-> [m \in MilestoneNames |-> FALSE],
     verification_complete |-> FALSE,
     root_cause_confidence |-> 0]

NoDegradedMode ==
    [active |-> FALSE, mode_type |-> "none", reason_turns |-> 0,
     entered_at |-> 0, attempted_actions |-> <<>>]

NoStatement == ""
ProposedStatement == "proposed problem statement"
InitialDescription == "initial description"

\* A case as the case service creates it
NewCase(proposed) ==
    [status |-> "consulting",
     current_turn |-> 0,
     turns_without_progress |-> 0,
     degraded_mode |-> NoDegradedMode,
     progress |-> InvestigationProgress,
     consulting |-> [proposed_problem_statement |-> proposed,
                     problem_statement_confirmed |-> FALSE,
                     decided_to_investigate |-> FALSE],
     description |-> InitialDescription,
     turn_history |-> <<>>,
     evidence |-> <<>>,
     uploaded_files |-> <<>>,
     hypotheses |-> <<>>,
     solutions |-> 0,
     closure_reason |-> "none",
     resolved_at |-> 0,
     closed_at |-> 0]

(* Inputs of a turn *)

ConfirmKeywords == {"yes", "correct"}
InvestigateKeywords == {"investigate", "go ahead"}
UserMessages == {{}, {"correct"}, {"investigate"}, {"yes", "go ahead"}}

ResponseKeywords == {"symptom", "root cause", "solution"}
LLMResponses == {{}, {"symptom"}, {"root cause", "solution"}, ResponseKeywords}

InvestigationStages == {"problem_verification", "investigation", "solution"}

NoToolCalls == [present |-> FALSE, calls |-> <<>>]

\* one entry of the "milestones" argument of an update_milestones tool call
MilestoneUpdate(m, completed) ==
    [milestone |-> m, completed |-> completed, confidence |-> 900,
     solution_description |-> FALSE]

UpdateMilestonesCall(updates) ==
    [name |-> "update_milestones", milestones |-> updates, statement |-> FALSE]

GenerateHypothesisCall(hasStatement) ==
    [name |-> "generate_hypothesis", milestones |-> <<>>, statement |-> hasStatement]

ToolCallLists ==
    {<<>>, <<GenerateHypothesisCall(TRUE)>>}
    \cup {<<UpdateMilestonesCall(<<MilestoneUpdate(m, TRUE)>>)>> :
            m \in {"symptom_verified", "solution_verified"}}
    \cup {<<UpdateMilestonesCall(<<MilestoneUpdate("symptom_verified", FALSE)>>)>>}
    \cup {<<UpdateMilestonesCall(<<MilestoneUpdate("scope_assessed", TRUE),
                                   MilestoneUpdate("timeline_established", TRUE),
                                   MilestoneUpdate("changes_identified", TRUE)>>)>>}

\* what an LLM result may carry
LLMToolCalls ==
    {NoToolCalls,
     [present |-> TRUE,
      calls |-> <<UpdateMilestonesCall(<<MilestoneUpdate("solution_verified", TRUE)>>)>>]}

ToolCalls == {NoToolCalls} \cup {[present |-> TRUE, calls |-> l] : l \in ToolCallLists}

\* attachments: None/empty, or a list of attachment mappings
AttachmentLists ==
    {[i \in 1..n |-> [file_id |-> i]] : n \in 0..MaxAttachments}

Truthy(seq) == Len(seq) > 0

\* _create_uploaded_file_from_attachment
CreateUploadedFile(attachment, turn_number) ==
    [file_id |-> attachment.file_id, uploaded_at_turn |-> turn_number]

\* a variant that tests solution_proposed first
InferEvidenceCategory_SolutionFirst(c) ==
    IF c.progress.flags["solution_proposed"] THEN "resolution_evidence"
    ELSE IF ~c.progress.verification_complete THEN "symptom_evidence"
    ELSE "causal_evidence"

\* _infer_evidence_category
InferEvidenceCategory(c) ==
    IF ~c.progress.verification_complete THEN "symptom_evidence"
    ELSE IF c.progress.flags["solution_proposed"] THEN "resolution_evidence"
    ELSE "causal_evidence"

\* _create_evidence_from_attachment; the generated id is the next free index
CreateEvidence(c, attachment, turn_number) ==
    [evidence_id |-> Len(c.evidence) + 1,
     category |-> InferEvidenceCategory(c),
     collected_at_turn |-> turn_number]

\* _transition_to_investigating
TransitionToInvestigating(c) ==
    [c EXCEPT !.status = "investigating",
              !.description =
                  IF c.consulting.proposed_problem_statement # NoStatement
                  THEN c.consulting.proposed_problem_statement
                  ELSE c.description,
              !.progress = InvestigationProgress]

SetFlag(c, m) == [c EXCEPT !.progress.flags[m] = TRUE]

\* a variant that stores the update's "completed" value in the flag
ApplyMilestoneUpdate_Assign(res, update) ==
    IF update.milestone \notin MilestoneNames THEN res
    ELSE [case |-> [res.case EXCEPT
                      !.progress.flags[update.milestone] = update.completed],
          completed |-> IF update.completed
                        THEN Append(res.completed, update.milestone)
                        ELSE res.completed]

\* one iteration of the loop of _process_milestone_updates over the updates;
\* res is [case, completed]
ApplyMilestoneUpdate(res, update) ==
    LET c == res.case
        m == update.milestone
    IN  IF ~update.completed \/ m \notin MilestoneNames \/ c.progress.flags[m]
        THEN res
        ELSE [case |->
                 IF m = "root_cause_identified"
                 THEN [SetFlag(c, m) EXCEPT
                          !.progress.root_cause_confidence = update.confidence]
                 ELSE IF m = "solution_proposed" /\ update.solution_description
                 THEN [SetFlag(c, m) EXCEPT !.solutions = @ + 1]
                 ELSE SetFlag(c, m),
              completed |-> Append(res.completed, m)]

RECURSIVE ApplyMilestoneUpdates(_, _)
ApplyMilestoneUpdates(res, updates) ==
    IF updates = <<>> THEN res
    ELSE ApplyMilestoneUpdates(ApplyMilestoneUpdate(res, Head(updates)),
                               Tail(updates))

\* the closing check of _process_milestone_updates
CheckVerificationComplete(c) ==
    IF \A m \in VerificationMilestones : c.progress.flags[m]
    THEN [c EXCEPT !.progress.verification_complete = TRUE]
    ELSE c

\* _process_milestone_updates: [case, completed (the milestones it completed)]
ProcessMilestoneUpdates(c, arguments) ==
    LET r == ApplyMilestoneUpdates([case |-> c, completed |-> <<>>],
                                   arguments.milestones)
    IN  [case |-> CheckVerificationComplete(r.case), completed |-> r.completed]

\* _process_hypothesis_generation: [case, created]
ProcessHypothesisGeneration(c, arguments) ==
    IF ~arguments.statement
    THEN [case |-> c, created |-> <<>>]
    ELSE LET id == Len(c.hypotheses) + 1
         IN  [case |-> [c EXCEPT !.hypotheses =
                           Append(@, [hypothesis_id |-> id, status |-> "active",
                                      likelihood |-> 500,
                                      created_at_turn |-> c.current_turn + 1])],
              created |-> <<id>>]

\* the loop over tool_calls of _process_response (INVESTIGATING);
\* st is [case, milestones_completed, hypotheses_generated]
ApplyToolCall(st, call) ==
    IF call.name = "update_milestones"
    THEN LET r == ProcessMilestoneUpdates(st.case, call)
         IN  [st EXCEPT !.case = r.case,
                        !.milestones_completed = @ \o r.completed]
    ELSE IF call.name = "generate_hypothesis"
    THEN LET r == ProcessHypothesisGeneration(st.case, call)
         IN  [st EXCEPT !.case = r.case,
                        !.hypotheses_generated = @ \o r.created]
    ELSE st

RECURSIVE ApplyToolCalls(_, _)
ApplyToolCalls(st, calls) ==
    IF calls = <<>> THEN st
    ELSE ApplyToolCalls(ApplyToolCall(st, Head(calls)), Tail(calls))

\* the keyword fallback of _process_response, one keyword at a time
KeywordMilestone(st, keyword, m, llm_response) ==
    IF ~st.case.progress.flags[m] /\ keyword \in llm_response
    THEN [st EXCEPT
            !.case = IF m = "root_cause_identified"
                     THEN [SetFlag(st.case, m) EXCEPT
                              !.progress.root_cause_confidence = 800]
                     ELSE SetFlag(st.case, m),
            !.milestones_completed = Append(@, m)]
    ELSE st

KeywordFallback(st, llm_response) ==
    KeywordMilestone(
        KeywordMilestone(
            KeywordMilestone(st, "symptom", "symptom_verified", llm_response),
            "root cause", "root_cause_identified", llm_response),
        "solution", "solution_proposed", llm_response)

RECURSIVE RecordUploads(_, _, _)
\* the attachment loop of the CONSULTING branch: uploaded files only
RecordUploads(c, attachments, turn_number) ==
    IF attachments = <<>> THEN c
    ELSE RecordUploads(
             [c EXCEPT !.uploaded_files =
                 Append(@, CreateUploadedFile(Head(attachments), turn_number))],
             Tail(attachments), turn_number)

RECURSIVE RecordUploadsAndEvidence(_, _, _)
\* the attachment loop of the INVESTIGATING branch: st is [case, evidence_added]
RecordUploadsAndEvidence(st, attachments, turn_number) ==
    IF attachments = <<>> THEN st
    ELSE LET a == Head(attachments)
             ev == CreateEvidence(st.case, a, turn_number)
         IN  RecordUploadsAndEvidence(
                 [case |-> [st.case EXCEPT
                              !.uploaded_files =
                                  Append(@, CreateUploadedFile(a, turn_number)),
                              !.evidence = Append(@, ev)],
                  evidence_added |-> Append(st.evidence_added, ev.evidence_id)],
                 Tail(attachments), turn_number)

\* a variant that confirms without a proposed problem statement
ProcessConsulting_NoStatementCheck(c, user_message, attachments) ==
    LET c1 == RecordUploads(c, attachments, c.current_turn + 1)
        c2 == IF user_message \cap ConfirmKeywords # {}
              THEN [c1 EXCEPT !.consulting.problem_statement_confirmed = TRUE]
              ELSE c1
        c3 == IF user_message \cap InvestigateKeywords # {}
                 /\ c2.consulting.problem_statement_confirmed
              THEN [c2 EXCEPT !.consulting.decided_to_investigate = TRUE]
              ELSE c2
        transition == c3.consulting.problem_statement_confirmed
                      /\ c3.consulting.decided_to_investigate
        c4 == IF transition THEN TransitionToInvestigating(c3) ELSE c3
    IN  [case |-> c4,
         metadata |->
            [progress_made |-> c4.consulting.problem_statement_confirmed
                               \/ Len(attachments) > 0,
             outcome |-> IF Truthy(attachments) THEN "data_provided"
                         ELSE "conversation",
             status_transitioned |-> transition,
             milestones_completed |-> <<>>,
             evidence_added |-> <<>>,
             hypotheses_generated |-> <<>>]]

\* the CONSULTING branch of _process_response
ProcessConsulting(c, user_message, attachments) ==
    LET c1 == RecordUploads(c, attachments, c.current_turn + 1)
        c2 == IF user_message \cap ConfirmKeywords # {}
                 /\ c1.consulting.proposed_problem_statement # NoStatement
              THEN [c1 EXCEPT !.consulting.problem_statement_confirmed = TRUE]
              ELSE c1
        c3 == IF user_message \cap InvestigateKeywords # {}
                 /\ c2.consulting.problem_statement_confirmed
              THEN [c2 EXCEPT !.consulting.decided_to_investigate = TRUE]
              ELSE c2
        transition == c3.consulting.problem_statement_confirmed
                      /\ c3.consulting.decided_to_investigate
        c4 == IF transition THEN TransitionToInvestigating(c3) ELSE c3
    IN  [case |-> c4,
         metadata |->
            [progress_made |-> c4.consulting.problem_statement_confirmed
                               \/ Len(attachments) > 0,
             outcome |-> IF Truthy(attachments) THEN "data_provided"
                         ELSE "conversation",
             status_transitioned |-> transition,
             milestones_completed |-> <<>>,
             evidence_added |-> <<>>,
             hypotheses_generated |-> <<>>]]

\* a variant that classifies the turn by its attachments first
ProcessInvestigating_DataFirst(c, llm_response, tool_calls, attachments) ==
    LET a == RecordUploadsAndEvidence([case |-> c, evidence_added |-> <<>>],
                                      attachments, c.current_turn + 1)
        st0 == [case |-> a.case, milestones_completed |-> <<>>,
                hypotheses_generated |-> <<>>]
        has_calls == tool_calls.present /\ Truthy(tool_calls.calls)
        st1 == IF has_calls THEN ApplyToolCalls(st0, tool_calls.calls)
               ELSE KeywordFallback(st0, llm_response)
    IN  [case |-> st1.case,
         metadata |->
            [progress_made |-> Len(st1.milestones_completed) > 0
                               \/ Len(a.evidence_added) > 0,
             outcome |-> IF Truthy(attachments) THEN "data_provided"
                         ELSE IF Truthy(st1.milestones_completed)
                         THEN "milestone_completed"
                         ELSE "conversation",
             status_transitioned |-> FALSE,
             milestones_completed |-> st1.milestones_completed,
             evidence_added |-> a.evidence_added,
             hypotheses_generated |-> st1.hypotheses_generated]]

\* the INVESTIGATING branch of _process_response
ProcessInvestigating(c, llm_response, tool_calls, attachments) ==
    LET a == RecordUploadsAndEvidence([case |-> c, evidence_added |-> <<>>],
                                      attachments, c.current_turn + 1)
        st0 == [case |-> a.case, milestones_completed |-> <<>>,
                hypotheses_generated |-> <<>>]
        has_calls == tool_calls.present /\ Truthy(tool_calls.calls)
        st1 == IF has_calls THEN ApplyToolCalls(st0, tool_calls.calls)
               ELSE KeywordFallback(st0, llm_response)
    IN  [case |-> st1.case,
         metadata |->
            [progress_made |-> Len(st1.milestones_completed) > 0
                               \/ Len(a.evidence_added) > 0,
             outcome |-> IF Truthy(st1.milestones_completed)
                         THEN "milestone_completed"
                         ELSE IF Truthy(attachments) THEN "data_provided"
                         ELSE "conversation",
             status_transitioned |-> FALSE,
             milestones_completed |-> st1.milestones_completed,
             evidence_added |-> a.evidence_added,
             hypotheses_generated |-> st1.hypotheses_generated]]

\* the RESOLVED / CLOSED branch of _process_response
ProcessTerminal(c) ==
    [case |-> c,
     metadata |->
        [progress_made |-> FALSE,
         outcome |-> "conversation",
         status_transitioned |-> FALSE,
         milestones_completed |-> <<>>,
         evidence_added |-> <<>>,
         hypotheses_generated |-> <<>>]]

\* a variant without the RESOLVED / CLOSED branch
ProcessResponse_NoTerminalBranch(c, user_message, llm_response, tool_calls, attachments) ==
    IF c.status = "consulting"
    THEN ProcessConsulting(c, user_message, attachments)
    ELSE ProcessInvestigating(c, llm_response, tool_calls, attachments)

\* _process_response: [case, metadata]
ProcessResponse(c, user_message, llm_response, tool_calls, attachments) ==
    IF c.status = "consulting"
    THEN ProcessConsulting(c, user_message, attachments)
    ELSE IF c.status = "investigating"
    THEN ProcessInvestigating(c, llm_response, tool_calls, attachments)
    ELSE ProcessTerminal(c)

\* _create_turn_record
CreateTurnRecord(turn_number, metadata) ==
    [turn_number |-> turn_number,
     milestones_completed |-> metadata.milestones_completed,
     evidence_added |-> metadata.evidence_added,
     progress_made |-> metadata.progress_made,
     outcome |-> metadata.outcome]

\* _apply_degraded_mode_recovery for NO_PROGRESS; current_stage is a property
\* of the progress model
RecoveryActions(current_stage) ==
    IF current_stage = "problem_verification"
    THEN <<"engagement_shift_to_hypothesis">>
    ELSE IF current_stage = "investigation"
    THEN <<"engagement_shift_to_expert">>
    ELSE <<>>

\* a variant without the early return on an active degraded mode
EnterDegradedMode_Overwrite(c, current_stage) ==
    [c EXCEPT !.degraded_mode =
        [active |-> TRUE, mode_type |-> "no_progress",
         reason_turns |-> c.turns_without_progress,
         entered_at |-> c.current_turn,
         attempted_actions |-> RecoveryActions(current_stage)]]

\* _enter_degraded_mode(case, "no_progress")
EnterDegradedMode(c, current_stage) ==
    IF c.degraded_mode.active THEN c
    ELSE [c EXCEPT !.degraded_mode =
            [active |-> TRUE, mode_type |-> "no_progress",
             reason_turns |-> c.turns_without_progress,
             entered_at |-> c.current_turn,
             attempted_actions |-> RecoveryActions(current_stage)]]

\* a variant that resets the counter and keeps the degraded-mode record
CheckDegradedModeExit_KeepMode(c, progress_made) ==
    IF ~c.degraded_mode.active THEN c
    ELSE IF progress_made
    THEN [c EXCEPT !.turns_without_progress = 0]
    ELSE c

\* _check_degraded_mode_exit
CheckDegradedModeExit(c, progress_made) ==
    IF ~c.degraded_mode.active THEN c
    ELSE IF progress_made
    THEN [c EXCEPT !.degraded_mode = NoDegradedMode,
                   !.turns_without_progress = 0]
    ELSE c

\* a variant that resolves on solution_applied
CheckAutomaticTransitions_Applied(c) ==
    IF c.status = "investigating" /\ c.progress.flags["solution_applied"]
    THEN [c EXCEPT !.status = "resolved",
                   !.resolved_at = c.current_turn,
                   !.closed_at = c.current_turn,
                   !.closure_reason = "resolved"]
    ELSE c

\* a variant that resolves a case of any status
CheckAutomaticTransitions_AnyStatus(c) ==
    IF c.progress.flags["solution_verified"]
    THEN [c EXCEPT !.status = "resolved",
                   !.resolved_at = c.current_turn,
                   !.closed_at = c.current_turn,
                   !.closure_reason = "resolved"]
    ELSE c

\* _check_automatic_transitions
CheckAutomaticTransitions(c) ==
    IF c.status = "investigating" /\ c.progress.flags["solution_verified"]
    THEN [c EXCEPT !.status = "resolved",
                   !.resolved_at = c.current_turn,
                   !.closed_at = c.current_turn,
                   !.closure_reason = "resolved"]
    ELSE c

\* process_turn, step 7: progress tracking
UpdateProgressTracking(c, progress_made) ==
    IF progress_made
    THEN [c EXCEPT !.turns_without_progress = 0]
    ELSE [c EXCEPT !.turns_without_progress = @ + 1]

\* a variant that waits one turn more before entering degraded mode
CheckDegradedMode_Late(c, progress_made, current_stage) ==
    IF progress_made THEN CheckDegradedModeExit(c, TRUE)
    ELSE IF c.turns_without_progress > DEGRADED_AFTER_TURNS
            /\ ~c.degraded_mode.active
    THEN EnterDegradedMode(c, current_stage)
    ELSE c

\* process_turn, step 8: degraded mode entry / exit
CheckDegradedMode(c, progress_made, current_stage) ==
    IF progress_made THEN CheckDegradedModeExit(c, TRUE)
    ELSE IF c.turns_without_progress >= DEGRADED_AFTER_TURNS
            /\ ~c.degraded_mode.active
    THEN EnterDegradedMode(c, current_stage)
    ELSE c

\* a variant that hands the case over for saving right after the status
\* branch, before the turn is counted and logged
RunTurn_SaveBeforeTracking(c, user_message, llm_response, tool_calls, attachments, current_stage) ==
    LET r == ProcessResponse(c, user_message, llm_response, tool_calls, attachments)
    IN  [case |-> r.case, metadata |-> r.metadata]

\* a variant that creates the turn record before the turn is counted
RunTurn_RecordBeforeCount(c, user_message, llm_response, tool_calls, attachments, current_stage) ==
    LET r == ProcessResponse(c, user_message, llm_response, tool_calls, attachments)
        md == r.metadata
        c1 == [r.case EXCEPT !.turn_history =
                  Append(@, CreateTurnRecord(r.case.current_turn, md))]
        c2 == [c1 EXCEPT !.current_turn = @ + 1]
        c3 == UpdateProgressTracking(c2, md.progress_made)
        c4 == CheckDegradedMode(c3, md.progress_made, current_stage)
        c5 == CheckAutomaticTransitions(c4)
    IN  [case |-> c5, metadata |-> md]

\* process_turn, steps 5 to 9, on the response and the tool calls handed to
\* _process_response: [case, metadata]
RunTurn(c, user_message, llm_response, tool_calls, attachments, current_stage) ==
    LET r == ProcessResponse(c, user_message, llm_response, tool_calls, attachments)
        md == r.metadata
        c1 == [r.case EXCEPT !.current_turn = @ + 1]
        c2 == [c1 EXCEPT !.turn_history =
                  Append(@, CreateTurnRecord(c1.current_turn, md))]
        c3 == UpdateProgressTracking(c2, md.progress_made)
        c4 == CheckDegradedMode(c3, md.progress_made, current_stage)
        c5 == CheckAutomaticTransitions(c4)
    IN  [case |-> c5, metadata |-> md]

\* process_turn, step 4: the tool calls extracted from the LLM result
ExtractToolCalls(llm_tool_calls) == NoToolCalls

NoTurn ==
    [op |-> "none", status_before |-> "consulting", raised |-> "none",
     saved |-> FALSE, progress_made |-> FALSE, outcome |-> "conversation",
     status_transitioned |-> FALSE, tool_calls |-> FALSE,
     attachments |-> FALSE, attachment_count |-> 0, save_calls |-> 0,
     object_changed |-> FALSE,
     error |-> "none", cause |-> "none"]

\* the exception a failing step raises inside the try block of process_turn:
\* _build_prompt on a status it does not know, the provider's generate, the
\* case client's update_case
StepError(raised) ==
    CASE raised = "status" -> "MilestoneEngineError"
      [] raised = "llm" -> "ProviderError"
      [] raised = "save" -> "CaseClientError"
      [] OTHER -> "none"

\* a variant that lets the exception through as it is
WrapError_Propagate(e) == [error |-> e, cause |-> "none"]

\* the except clause of process_turn: raise MilestoneEngineError(...) from e
WrapError(e) == [error |-> "MilestoneEngineError", cause |-> e]

\* what a call of process_turn reported: the metadata it returned, or the
\* step whose exception it raised (nothing is returned then)
TurnReport(c0, md, raised, has_calls) ==
    IF raised # "none"
    THEN [NoTurn EXCEPT !.op = "process_turn", !.status_before = c0.status,
                        !.raised = raised,
                        !.save_calls = IF raised = "save" THEN 1 ELSE 0,
                        !.error = WrapError(StepError(raised)).error,
                        !.cause = WrapError(StepError(raised)).cause]
    ELSE [NoTurn EXCEPT !.op = "process_turn", !.status_before = c0.status,
                        !.saved = TRUE, !.save_calls = 1,
                        !.progress_made = md.progress_made,
                        !.outcome = md.outcome,
                        !.status_transitioned = md.status_transitioned,
                        !.tool_calls = has_calls]

\* The stages _apply_degraded_mode_recovery can read from
\* case.progress.current_stage: it is read only on the turn that enters
\* degraded mode
StagesRead(c, md) ==
    IF ~md.progress_made /\ ~c.degraded_mode.active
       /\ c.turns_without_progress + 1 >= DEGRADED_AFTER_TURNS
    THEN InvestigationStages
    ELSE {"problem_verification"}

\* agent_chat: get_case, then process_turn steps 4 to 10 on the loaded case,
\* the provider's generate having returned.  save_ok: update_case returns;
\* when it raises, the mutated in-memory object is dropped with the request.
\* tool_calls are the tool calls process_turn hands to _process_response.
ChatTurn(user_message, llm_response, tool_calls, attachments, save_ok) ==
    LET c0 == case
        md0 == ProcessResponse(c0, user_message, llm_response, tool_calls,
                               attachments).metadata
        has_calls == tool_calls.present /\ Truthy(tool_calls.calls)
    IN  /\ case.status \in CaseStatus
        /\ case.current_turn < MaxTurns
        /\ Len(case.uploaded_files) + Len(attachments) <= MaxUploads
        /\ \E current_stage \in StagesRead(c0, md0) :
            LET r == RunTurn(c0, user_message, llm_response, tool_calls,
                             attachments, current_stage)
            IN  /\ case' = IF save_ok THEN r.case ELSE case
                /\ last' = [TurnReport(c0, r.metadata,
                                       IF save_ok THEN "none" ELSE "save",
                                       has_calls)
                               EXCEPT !.attachments =
                                         save_ok /\ Truthy(attachments),
                                      !.attachment_count =
                                         IF save_ok THEN Len(attachments)
                                         ELSE 0,
                                      !.object_changed = (r.case # c0)]

\* a variant that counts the turn before it invokes the LLM
ChatTurnLLMError_CountedFirst ==
    /\ case.status \in CaseStatus
    /\ case.current_turn < MaxTurns
    /\ case' = case
    /\ LET object == [case EXCEPT !.current_turn = @ + 1]
       IN  last' = [TurnReport(case, NoTurn, "llm", FALSE)
                      EXCEPT !.object_changed = (object # case)]

\* agent_chat when the provider's generate raises in step 3: process_turn
\* raises MilestoneEngineError before _process_response runs; object is the
\* Case object the caller handed in, as it is when the error reaches it
ChatTurnLLMError ==
    /\ case.status \in CaseStatus
    /\ case.current_turn < MaxTurns
    /\ case' = case
    /\ LET object == case
       IN  last' = [TurnReport(case, NoTurn, "llm", FALSE)
                      EXCEPT !.object_changed = (object # case)]

\* a variant whose _build_prompt has no else branch: the turn on a status
\* it does not know is processed like a terminal turn
ChatTurnUnknownStatus_Silent ==
    /\ case.status \notin CaseStatus
    /\ case.current_turn < MaxTurns
    /\ LET r == RunTurn(case, {}, {}, NoToolCalls, <<>>, "problem_verification")
       IN  /\ case' = r.case
           /\ last' = TurnReport(case, r.metadata, "none", FALSE)

\* agent_chat on a case whose status is none of the four: _build_prompt
\* raises in step 1
ChatTurnUnknownStatus ==
    /\ case.status \notin CaseStatus
    /\ case.current_turn < MaxTurns
    /\ case' = case
    /\ last' = TurnReport(case, NoTurn, "status", FALSE)

\* process_turn as agent_chat invokes it: the tool calls of the LLM result are
\* replaced by None before _process_response runs
process_turn ==
    /\ \E user_message \in UserMessages, llm_response \in LLMResponses,
          llm_tool_calls \in LLMToolCalls, attachments \in AttachmentLists :
           ChatTurn(user_message, llm_response,
                    ExtractToolCalls(llm_tool_calls), attachments, TRUE)
    /\ UNCHANGED <<hypVars, listVars, memVars, ioVars>>

\* process_turn when update_case raises in step 10
process_turn_save_error ==
    /\ \E user_message \in UserMessages, llm_response \in LLMResponses,
          llm_tool_calls \in LLMToolCalls, attachments \in AttachmentLists :
           ChatTurn(user_message, llm_response,
                    ExtractToolCalls(llm_tool_calls), attachments, FALSE)
    /\ UNCHANGED <<hypVars, listVars, memVars, ioVars>>

\* process_turn when the provider's generate raises in step 3
process_turn_llm_error ==
    /\ ChatTurnLLMError
    /\ UNCHANGED <<hypVars, listVars, memVars, ioVars>>

\* process_turn when _build_prompt raises in step 1
process_turn_unknown_status ==
    /\ ChatTurnUnknownStatus
    /\ UNCHANGED <<hypVars, listVars, memVars, ioVars>>

\* process_turn seen together with what the provider's generate returned in
\* step 3: the interpretation layer's tool calls are part of the LLM result,
\* step 4 keeps the text only
process_turn_llm_result ==
    /\ \E user_message \in UserMessages, llm_response \in LLMResponses,
          llm_tool_calls \in LLMToolCalls, attachments \in AttachmentLists :
           /\ ChatTurn(user_message, llm_response,
                       ExtractToolCalls(llm_tool_calls), attachments, TRUE)
           /\ llm' = [tool_calls |-> llm_tool_calls]
    /\ UNCHANGED <<hypVars, listVars, memVars, req>>

\* the same turn with the tool calls forwarded to _process_response, as its
\* tool_calls parameter accepts them
process_turn_structured ==
    /\ \E user_message \in UserMessages, tool_calls \in ToolCalls,
          attachments \in AttachmentLists :
           /\ tool_calls.present /\ Truthy(tool_calls.calls)
           /\ ChatTurn(user_message, ResponseKeywords, tool_calls, attachments,
                       TRUE)
    /\ UNCHANGED <<hypVars, listVars, memVars, ioVars>>

\* the case service closes the case on the user's request (POST .../close)
close_case ==
    /\ case.status # "closed"
    /\ case' = [case EXCEPT !.status = "closed",
                            !.closure_reason = "user_request",
                            !.closed_at = case.current_turn]
    /\ last' = [NoTurn EXCEPT !.op = "close_case",
                              !.status_before = case.status]
    /\ UNCHANGED <<hypVars, listVars, memVars, ioVars>>

-----------------------------------------------------------------------------
(* The hypothesis confidence engine: hypothesis_manager.py *)

MaxHypOps == 3          \* operations applied to one hypothesis
MaxEvidenceIds == 3     \* distinct evidence ids

SUPPORT_STEP == 150         \* added per supporting evidence item
REFUTE_STEP == 200          \* subtracted per refuting evidence item
PROGRESS_THRESHOLD == 50    \* a smaller change of likelihood is no progress
VALIDATE_AT == 700          \* VALIDATED at or above, with enough support
REFUTE_AT == 200            \* REFUTED at or below, with enough refutation
RETIRE_BELOW == 300         \* RETIRED below
MIN_EVIDENCE == 2           \* evidence items that VALIDATED / REFUTED need
DECAY_AFTER == 2            \* stagnant iterations before decay applies
DECAY_PERCENT == 85         \* the decay factor, in hundredths
ONE == 1000                 \* likelihood 1.0

HypothesisStatus == {"captured", "active", "validated", "refuted", "retired"}

EvidenceIds == 1..MaxEvidenceIds

\* the evidence-id lists handed to record_hypothesis_test / refute_hypothesis
EvidenceLists == {[i \in 1..n |-> i] : n \in 0..MaxEvidenceIds}

InitialLikelihoods == {0, 400, 500, 600, ONE}

\* new_likelihood arguments, in and out of [0,1]
NewLikelihoods == {0 - 100, 250, 750, ONE + 100}

ConfidenceChanges == {30, 280}

TestResults == {"supports", "refutes", "inconclusive"}

Clamp(x) == IF x < 0 THEN 0 ELSE IF x > ONE THEN ONE ELSE x

Abs(x) == IF x < 0 THEN 0 - x ELSE x

InSeq(x, seq) == \E i \in 1..Len(seq) : seq[i] = x

\* create_hypothesis; confidence_trajectory, an append-only log that no
\* operation reads, is left out
CreateHypothesis(category, initial_likelihood, current_turn, status) ==
    [category |-> category,
     status |-> status,
     likelihood |-> initial_likelihood,
     initial_likelihood |-> initial_likelihood,
     supporting_evidence |-> <<>>,
     refuting_evidence |-> <<>>,
     iterations_without_progress |-> 0,
     last_progress_at_turn |-> current_turn,
     last_updated_turn |-> current_turn,
     retirement_reason |-> "none"]

\* a variant that tests RETIRED before REFUTED
CheckStatusTransition_RetireFirst(h, turn) ==
    IF h.status # "active" THEN h
    ELSE IF h.likelihood >= VALIDATE_AT
            /\ Len(h.supporting_evidence) >= MIN_EVIDENCE
    THEN [h EXCEPT !.status = "validated"]
    ELSE IF h.likelihood < RETIRE_BELOW
    THEN [h EXCEPT !.status = "retired",
                   !.retirement_reason = "Low confidence after testing"]
    ELSE IF h.likelihood <= REFUTE_AT
            /\ Len(h.refuting_evidence) >= MIN_EVIDENCE
    THEN [h EXCEPT !.status = "refuted",
                   !.retirement_reason = "Refuted by evidence"]
    ELSE h

\* _check_status_transition
CheckStatusTransition(h, turn) ==
    IF h.status # "active" THEN h
    ELSE IF h.likelihood >= VALIDATE_AT
            /\ Len(h.supporting_evidence) >= MIN_EVIDENCE
    THEN [h EXCEPT !.status = "validated"]
    ELSE IF h.likelihood <= REFUTE_AT
            /\ Len(h.refuting_evidence) >= MIN_EVIDENCE
    THEN [h EXCEPT !.status = "refuted",
                   !.retirement_reason = "Refuted by evidence"]
    ELSE IF h.likelihood < RETIRE_BELOW /\ h.status # "retired"
    THEN [h EXCEPT !.status = "retired",
                   !.retirement_reason = "Low confidence after testing"]
    ELSE h

\* the progress bookkeeping shared by both confidence paths: `change` is the
\* difference the code compares with the threshold
TrackProgress(h, change, turn) ==
    IF Abs(change) >= PROGRESS_THRESHOLD
    THEN [h EXCEPT !.last_progress_at_turn = turn,
                   !.iterations_without_progress = 0]
    ELSE [h EXCEPT !.iterations_without_progress = @ + 1]

\* a variant that adjusts the current likelihood instead of recomputing it
\* from initial_likelihood
UpdateConfidenceFromEvidence_Incremental(h, turn) ==
    LET new_confidence ==
            Clamp(h.likelihood
                  + Len(h.supporting_evidence) * SUPPORT_STEP
                  - Len(h.refuting_evidence) * REFUTE_STEP)
        h1 == [h EXCEPT !.likelihood = new_confidence,
                        !.last_updated_turn = turn]
    IN  CheckStatusTransition(
            TrackProgress(h1, new_confidence - h.likelihood, turn), turn)

\* update_confidence_from_evidence
UpdateConfidenceFromEvidence(h, turn) ==
    LET new_confidence ==
            Clamp(h.initial_likelihood
                  + Len(h.supporting_evidence) * SUPPORT_STEP
                  - Len(h.refuting_evidence) * REFUTE_STEP)
        h1 == [h EXCEPT !.likelihood = new_confidence,
                        !.last_updated_turn = turn]
    IN  CheckStatusTransition(
            TrackProgress(h1, new_confidence - h.likelihood, turn), turn)

\* link_evidence
LinkEvidence(h, evidence_id, supports, turn) ==
    LET h1 == IF supports
              THEN IF InSeq(evidence_id, h.supporting_evidence) THEN h
                   ELSE [h EXCEPT !.supporting_evidence =
                                      Append(@, evidence_id)]
              ELSE IF InSeq(evidence_id, h.refuting_evidence) THEN h
                   ELSE [h EXCEPT !.refuting_evidence =
                                      Append(@, evidence_id)]
    IN  UpdateConfidenceFromEvidence(h1, turn)

\* a variant that stores new_likelihood unclamped
UpdateHypothesisConfidence_NoClamp(h, new_likelihood, current_turn) ==
    LET h1 == [h EXCEPT !.likelihood = new_likelihood,
                        !.last_updated_turn = current_turn]
    IN  CheckStatusTransition(
            TrackProgress(h1, new_likelihood - h.likelihood, current_turn),
            current_turn)

\* update_hypothesis_confidence: the stored value is clamped, the progress
\* test compares the unclamped argument with the old likelihood
UpdateHypothesisConfidence(h, new_likelihood, current_turn) ==
    LET h1 == [h EXCEPT !.likelihood = Clamp(new_likelihood),
                        !.last_updated_turn = current_turn]
    IN  CheckStatusTransition(
            TrackProgress(h1, new_likelihood - h.likelihood, current_turn),
            current_turn)

\* Hypothesis.apply_confidence_decay of faultmaven.models.investigation: the
\* likelihood times 0.85 to the power iterations_without_progress
RECURSIVE Decayed(_, _)
Decayed(likelihood, iterations) ==
    IF iterations = 0 THEN likelihood
    ELSE Decayed((likelihood * DECAY_PERCENT) \div 100, iterations - 1)

\* a variant that decays whatever the stagnation counter is
ApplyConfidenceDecay_NoGuard(h, current_turn) ==
    [h EXCEPT !.likelihood =
                  Decayed(h.likelihood, h.iterations_without_progress)]

\* apply_confidence_decay
ApplyConfidenceDecay(h, current_turn) ==
    IF h.iterations_without_progress < DECAY_AFTER THEN h
    ELSE [h EXCEPT !.likelihood =
                       Decayed(h.likelihood, h.iterations_without_progress)]

\* refute_hypothesis
RefuteHypothesis(h, current_turn, refuting_evidence_ids, reason) ==
    [h EXCEPT !.status = "refuted",
              !.likelihood = 0,
              !.refuting_evidence = @ \o refuting_evidence_ids,
              !.retirement_reason = reason,
              !.last_updated_turn = current_turn]

\* record_hypothesis_test
RecordHypothesisTest(h, evidence_obtained, result, confidence_change, current_turn) ==
    LET new_likelihood ==
            IF result = "supports"
            THEN IF h.likelihood + Abs(confidence_change) > ONE THEN ONE
                 ELSE h.likelihood + Abs(confidence_change)
            ELSE IF result = "refutes"
            THEN IF h.likelihood - Abs(confidence_change) < 0 THEN 0
                 ELSE h.likelihood - Abs(confidence_change)
            ELSE h.likelihood
        h1 == IF result = "supports"
              THEN [h EXCEPT !.supporting_evidence = @ \o evidence_obtained]
              ELSE IF result = "refutes"
              THEN [h EXCEPT !.refuting_evidence = @ \o evidence_obtained]
              ELSE h
    IN  UpdateHypothesisConfidence(h1, new_likelihood, current_turn)

NoHypOp == [op |-> "create", count |-> 0, arg |-> 0, result |-> "none"]

\* the record of the operation just applied; the turn an operation is
\* called with is the number of the operation
HypOp(op, arg, result) ==
    [op |-> op, count |-> hlast.count + 1, arg |-> arg, result |-> result]

HypTurn == hlast.count + 1

link_evidence ==
    /\ hlast.count < MaxHypOps
    /\ \E evidence_id \in EvidenceIds, supports \in BOOLEAN :
        /\ hyp' = LinkEvidence(hyp, evidence_id, supports, HypTurn)
        /\ hlast' = HypOp("link_evidence", evidence_id,
                          IF supports THEN "supports" ELSE "refutes")
    /\ UNCHANGED <<caseVars, listVars, memVars, ioVars>>

update_confidence_from_evidence ==
    /\ hlast.count < MaxHypOps
    /\ hyp' = UpdateConfidenceFromEvidence(hyp, HypTurn)
    /\ hlast' = HypOp("update_confidence_from_evidence", 0, "none")
    /\ UNCHANGED <<caseVars, listVars, memVars, ioVars>>

update_hypothesis_confidence ==
    /\ hlast.count < MaxHypOps
    /\ \E new_likelihood \in NewLikelihoods :
        /\ hyp' = UpdateHypothesisConfidence(hyp, new_likelihood, HypTurn)
        /\ hlast' = HypOp("update_hypothesis_confidence", new_likelihood,
                          "none")
    /\ UNCHANGED <<caseVars, listVars, memVars, ioVars>>

record_hypothesis_test ==
    /\ hlast.count < MaxHypOps
    /\ \E result \in TestResults, confidence_change \in ConfidenceChanges,
          evidence_obtained \in EvidenceLists :
        /\ hyp' = RecordHypothesisTest(hyp, evidence_obtained, result,
                                       confidence_change, HypTurn)
        /\ hlast' = HypOp("record_hypothesis_test", confidence_change, result)
    /\ UNCHANGED <<caseVars, listVars, memVars, ioVars>>

apply_confidence_decay ==
    /\ hlast.count < MaxHypOps
    /\ hyp' = ApplyConfidenceDecay(hyp, HypTurn)
    /\ hlast' = HypOp("apply_confidence_decay", 0, "none")
    /\ UNCHANGED <<caseVars, listVars, memVars, ioVars>>

refute_hypothesis ==
    /\ hlast.count < MaxHypOps
    /\ \E refuting_evidence_ids \in EvidenceLists :
        /\ hyp' = RefuteHypothesis(hyp, HypTurn, refuting_evidence_ids,
                                   "refuted by test")
        /\ hlast' = HypOp("refute_hypothesis", Len(refuting_evidence_ids),
                          "none")
    /\ UNCHANGED <<caseVars, listVars, memVars, ioVars>>

\* get_validated_hypothesis: <<>> for None, else the first hypothesis of
\* greatest likelihood among the VALIDATED ones at or above 0.70
GetValidatedHypothesis(hypotheses) ==
    LET validated == SelectSeq(hypotheses, LAMBDA h :
                        h.status = "validated" /\ h.likelihood >= VALIDATE_AT)
    IN  IF validated = <<>> THEN <<>>
        ELSE <<validated[CHOOSE i \in 1..Len(validated) :
                  /\ \A j \in 1..Len(validated) :
                        validated[j].likelihood <= validated[i].likelihood
                  /\ \A j \in 1..(i - 1) :
                        validated[j].likelihood < validated[i].likelihood]>>

\* has_validated_hypothesis
HasValidatedHypothesis(hypotheses) ==
    \E i \in 1..Len(hypotheses) : hypotheses[i].status = "validated"

\* the caller asks both queries about the hypothesis the engine has worked on
validated_queries ==
    /\ hyp' = hyp
    /\ hlast' = [hlast EXCEPT
                    !.op = "validated_queries",
                    !.arg = Len(GetValidatedHypothesis(<<hyp>>)),
                    !.result = IF HasValidatedHypothesis(<<hyp>>)
                               THEN "true" ELSE "false"]
    /\ UNCHANGED <<caseVars, listVars, memVars, ioVars>>

-----------------------------------------------------------------------------
(* The list-level operations of the hypothesis engine *)

MaxHyps == 4            \* hypotheses in the list

ANCHOR_SAME_CATEGORY == 4       \* hypotheses in one category
ANCHOR_STALLED_ITERATIONS == 3  \* iterations without progress
ANCHOR_STALLED_COUNT == 2       \* stalled hypotheses
ANCHOR_TOP_BELOW == 700         \* likelihood of a stagnant top hypothesis
RETIRE_STALLED_AFTER == 2       \* iterations without progress to be retired
MIN_NEW_HYPOTHESES == 2         \* asked of the alternative generation

Categories == {"network", "config"}

\* what the hypotheses of a list differ in: <<likelihood, stagnation counter>>
\* of the ACTIVE ones, in either category, and one REFUTED hypothesis that
\* would be the stagnant top one if it counted
ListedScores == {<<500, 0>>, <<500, 3>>, <<800, 0>>, <<800, 3>>}

Listed ==
    {<<<<c, "active">>, sc>> : c \in Categories, sc \in ListedScores}
    \cup {<<<<"network", "refuted">>, <<900, 3>>>>}

ListedHypothesis(id, kind, score) ==
    [hypothesis_id |-> id,
     category |-> kind[1],
     status |-> kind[2],
     likelihood |-> score[1],
     iterations_without_progress |-> score[2],
     retirement_reason |-> "none",
     last_updated_turn |-> 0]

IsLive(h) == h.status \notin {"retired", "refuted"}

IdsOf(hs) == [i \in 1..Len(hs) |-> hs[i].hypothesis_id]

InCategory(hs, category) == SelectSeq(hs, LAMBDA h : h.category = category)

\* the keys of category_counts in insertion order: the categories of hs in
\* the order of their first appearance
RECURSIVE CategoryKeys(_, _)
CategoryKeys(hs, keys) ==
    IF hs = <<>> THEN keys
    ELSE CategoryKeys(Tail(hs),
                      IF InSeq(Head(hs).category, keys) THEN keys
                      ELSE Append(keys, Head(hs).category))

\* the first position of a sequence of booleans that is true, or 0
FirstIndex(flags) ==
    IF \E i \in 1..Len(flags) : flags[i]
    THEN CHOOSE i \in 1..Len(flags) :
            flags[i] /\ \A j \in 1..(i - 1) : ~flags[j]
    ELSE 0

NotAnchored == [is_anchored |-> FALSE, reason |-> "none", ids |-> <<>>]

\* detect_anchoring, condition 1
TooManyInCategory(active_hypotheses) ==
    LET keys == CategoryKeys(active_hypotheses, <<>>)
        k == FirstIndex([i \in 1..Len(keys) |->
                 Len(InCategory(active_hypotheses, keys[i]))
                     >= ANCHOR_SAME_CATEGORY])
    IN  IF k = 0 THEN NotAnchored
        ELSE [is_anchored |-> TRUE, reason |-> "category",
              ids |-> IdsOf(InCategory(active_hypotheses, keys[k]))]

\* detect_anchoring, condition 2
TooManyStalled(active_hypotheses) ==
    LET stalled_hypotheses ==
            IdsOf(SelectSeq(active_hypotheses, LAMBDA h :
                    h.iterations_without_progress >= ANCHOR_STALLED_ITERATIONS))
    IN  IF Len(stalled_hypotheses) >= ANCHOR_STALLED_COUNT
        THEN [is_anchored |-> TRUE, reason |-> "stalled",
              ids |-> stalled_hypotheses]
        ELSE NotAnchored

\* detect_anchoring, condition 3: sorted(..., reverse=True) is stable, so the
\* top hypothesis is the first of those with the greatest likelihood
TopStagnant(active_hypotheses) ==
    LET top == FirstIndex([i \in 1..Len(active_hypotheses) |->
                   \A j \in 1..Len(active_hypotheses) :
                       active_hypotheses[j].likelihood
                           <= active_hypotheses[i].likelihood])
        top_hypothesis == active_hypotheses[top]
    IN  IF top # 0
           /\ top_hypothesis.iterations_without_progress
                >= ANCHOR_STALLED_ITERATIONS
           /\ top_hypothesis.likelihood < ANCHOR_TOP_BELOW
        THEN [is_anchored |-> TRUE, reason |-> "top",
              ids |-> <<top_hypothesis.hypothesis_id>>]
        ELSE NotAnchored

\* a variant that tests the stalled hypotheses before the categories
DetectAnchoring_StalledFirst(hypotheses) ==
    LET active_hypotheses == SelectSeq(hypotheses, IsLive)
    IN  IF active_hypotheses = <<>> THEN NotAnchored
        ELSE IF TooManyStalled(active_hypotheses).is_anchored
        THEN TooManyStalled(active_hypotheses)
        ELSE IF TooManyInCategory(active_hypotheses).is_anchored
        THEN TooManyInCategory(active_hypotheses)
        ELSE TopStagnant(active_hypotheses)

\* detect_anchoring: (is_anchored, reason, affected_hypothesis_ids)
DetectAnchoring(hypotheses) ==
    LET active_hypotheses == SelectSeq(hypotheses, IsLive)
    IN  IF active_hypotheses = <<>> THEN NotAnchored
        ELSE IF TooManyInCategory(active_hypotheses).is_anchored
        THEN TooManyInCategory(active_hypotheses)
        ELSE IF TooManyStalled(active_hypotheses).is_anchored
        THEN TooManyStalled(active_hypotheses)
        ELSE TopStagnant(active_hypotheses)

\* force_alternative_generation: max(category_counts, key=...) is the first
\* key, in insertion order, of the greatest count, and raises ValueError on
\* an empty dict
ForceAlternativeGeneration(existing_hypotheses, current_turn) ==
    LET live == SelectSeq(existing_hypotheses, IsLive)
        keys == CategoryKeys(live, <<>>)
        k == FirstIndex([i \in 1..Len(keys) |->
                 \A j \in 1..Len(keys) :
                     Len(InCategory(live, keys[j]))
                         <= Len(InCategory(live, keys[i]))])
        dominant_category == keys[k]
        Retires(h) == /\ h.category = dominant_category
                      /\ h.iterations_without_progress >= RETIRE_STALLED_AFTER
                      /\ h.status = "active"
    IN  IF keys = <<>>
        THEN [raised |-> TRUE, hypotheses |-> existing_hypotheses,
              retired_count |-> 0, dominant_category |-> "none",
              min_new_hypotheses |-> 0]
        ELSE [raised |-> FALSE,
              hypotheses |->
                 [i \in 1..Len(existing_hypotheses) |->
                    IF Retires(existing_hypotheses[i])
                    THEN [existing_hypotheses[i] EXCEPT
                            !.status = "retired",
                            !.retirement_reason = "anchoring prevention",
                            !.last_updated_turn = current_turn]
                    ELSE existing_hypotheses[i]],
              retired_count |->
                 Len(SelectSeq(existing_hypotheses, Retires)),
              dominant_category |-> dominant_category,
              min_new_hypotheses |-> MIN_NEW_HYPOTHESES]

NoListResult ==
    [op |-> "none", is_anchored |-> FALSE, reason |-> "none", ids |-> <<>>,
     raised |-> FALSE, retired_count |-> 0, dominant_category |-> "none"]

\* the caller appends a hypothesis the engine has worked on to the list it
\* is building
add_hypothesis ==
    /\ Len(hlist) < MaxHyps
    /\ hres.op = "none"
    /\ \E l \in Listed :
          hlist' = Append(hlist, ListedHypothesis(Len(hlist) + 1, l[1], l[2]))
    /\ hres' = NoListResult
    /\ UNCHANGED <<caseVars, hypVars, memVars, ioVars>>

detect_anchoring ==
    /\ LET r == DetectAnchoring(hlist)
       IN  hres' = [NoListResult EXCEPT !.op = "detect_anchoring",
                                        !.is_anchored = r.is_anchored,
                                        !.reason = r.reason,
                                        !.ids = r.ids]
    /\ hlist' = hlist
    /\ UNCHANGED <<caseVars, hypVars, memVars, ioVars>>

force_alternative_generation ==
    /\ LET r == ForceAlternativeGeneration(hlist, 1)
       IN  /\ hlist' = r.hypotheses
           /\ hres' = [NoListResult EXCEPT
                         !.op = "force_alternative_generation",
                         !.raised = r.raised,
                         !.retired_count = r.retired_count,
                         !.dominant_category = r.dominant_category]
    /\ UNCHANGED <<caseVars, hypVars, memVars, ioVars>>

-----------------------------------------------------------------------------
(* The hierarchical memory manager: memory_manager.py *)

MaxIterations == 12     \* iterations appended to one memory
MaxTurnGap == 3         \* turns between two update_memory calls

HOT_TIER_SIZE == 2
WARM_TIER_SIZE == 3
COLD_TIER_SIZE == 5

\* the llm_provider the compression engine was built with: none, one whose
\* generate returns, one whose generate raises
SummaryProviders == {"none", "ok", "failing"}

EmptyMemory ==
    [hot_memory |-> <<>>, warm_snapshots |-> <<>>, cold_snapshots |-> <<>>,
     persistent_insights |-> <<>>, last_compression_turn |-> 0]

OODAIteration(n) == [iteration_number |-> n]

\* _generate_simple_summary: the text is computed from the iterations alone
GenerateSimpleSummary(iterations) ==
    [text |-> "simple",
     first |-> iterations[1].iteration_number,
     last |-> iterations[Len(iterations)].iteration_number]

\* a variant that swallows the provider's error and returns an empty summary
GenerateLLMSummary_EmptyOnFailure(iterations, provider) ==
    IF provider = "failing"
    THEN [text |-> "",
          first |-> iterations[1].iteration_number,
          last |-> iterations[Len(iterations)].iteration_number]
    ELSE [text |-> "llm",
          first |-> iterations[1].iteration_number,
          last |-> iterations[Len(iterations)].iteration_number]

\* _generate_llm_summary: the provider's stripped response, or, when
\* generate raises, the simple summary of the same iterations
GenerateLLMSummary(iterations, provider) ==
    IF provider = "failing"
    THEN GenerateSimpleSummary(iterations)
    ELSE [text |-> "llm",
          first |-> iterations[1].iteration_number,
          last |-> iterations[Len(iterations)].iteration_number]

\* compress_iterations: the summary the snapshot carries
Summary(iterations, provider) ==
    IF provider # "none"
    THEN GenerateLLMSummary(iterations, provider)
    ELSE GenerateSimpleSummary(iterations)

\* compress_iterations on a non-empty list
CompressIterations(iterations, provider) ==
    [iteration_range |-> <<iterations[1].iteration_number,
                           iterations[Len(iterations)].iteration_number>>,
     summary |-> Summary(iterations, provider),
     truncated |-> FALSE,
     evidence_collected |->
        [i \in 1..Len(iterations) |-> iterations[i].iteration_number]]

\* HierarchicalMemory.should_compress of faultmaven.models.investigation:
\* the turns since last_compression_turn have reached the interval of 3
ShouldCompress(memory, current_turn) ==
    current_turn - memory.last_compression_turn >= 3

\* _promote_to_warm
PromoteToWarm(memory, provider) ==
    LET overflow_count == Len(memory.hot_memory) - HOT_TIER_SIZE
    IN  IF overflow_count <= 0 THEN memory
        ELSE [memory EXCEPT
                !.warm_snapshots =
                    Append(@, CompressIterations(
                                  SubSeq(memory.hot_memory, 1, overflow_count),
                                  provider)),
                !.hot_memory = SubSeq(@, overflow_count + 1, Len(@))]

\* the cold snapshot _demote_to_cold builds from a warm one
ColdSnapshot(snapshot) ==
    [iteration_range |-> snapshot.iteration_range,
     summary |-> snapshot.summary,
     truncated |-> TRUE,
     evidence_collected |-> <<>>]

\* _demote_to_cold
DemoteToCold(memory) ==
    LET overflow_count == Len(memory.warm_snapshots) - WARM_TIER_SIZE
    IN  IF overflow_count <= 0 THEN memory
        ELSE [memory EXCEPT
                !.cold_snapshots =
                    @ \o [i \in 1..overflow_count |->
                            ColdSnapshot(memory.warm_snapshots[i])],
                !.warm_snapshots = SubSeq(@, overflow_count + 1, Len(@))]

\* a variant that keeps the oldest cold snapshots and drops the newest
PruneColdMemory_KeepOldest(memory) ==
    LET overflow_count == Len(memory.cold_snapshots) - COLD_TIER_SIZE
    IN  IF overflow_count <= 0 THEN memory
        ELSE [memory EXCEPT
                !.cold_snapshots = SubSeq(@, 1, COLD_TIER_SIZE)]

\* _prune_cold_memory
PruneColdMemory(memory) ==
    LET overflow_count == Len(memory.cold_snapshots) - COLD_TIER_SIZE
    IN  IF overflow_count <= 0 THEN memory
        ELSE [memory EXCEPT
                !.cold_snapshots = SubSeq(@, overflow_count + 1, Len(@))]

\* _compress_memory
CompressMemory(memory, current_turn, provider) ==
    LET m1 == IF Len(memory.hot_memory) > HOT_TIER_SIZE
              THEN PromoteToWarm(memory, provider) ELSE memory
        m2 == IF Len(m1.warm_snapshots) > WARM_TIER_SIZE
              THEN DemoteToCold(m1) ELSE m1
    IN  IF Len(m2.cold_snapshots) > COLD_TIER_SIZE
        THEN PruneColdMemory(m2) ELSE m2

\* a variant that trims the hot tier only as part of a compression
UpdateMemory_TrimOnCompression(memory, new_iteration, current_turn, provider) ==
    LET m1 == [memory EXCEPT !.hot_memory = Append(@, new_iteration)]
    IN  IF ShouldCompress(m1, current_turn)
        THEN [CompressMemory(m1, current_turn, provider) EXCEPT
                !.last_compression_turn = current_turn]
        ELSE m1

\* update_memory
UpdateMemory(memory, new_iteration, current_turn, provider) ==
    LET m1 == [memory EXCEPT !.hot_memory = Append(@, new_iteration)]
        m2 == IF ShouldCompress(m1, current_turn)
              THEN [CompressMemory(m1, current_turn, provider) EXCEPT
                      !.last_compression_turn = current_turn]
              ELSE m1
    IN  IF Len(m2.hot_memory) > HOT_TIER_SIZE
        THEN PromoteToWarm(m2, provider) ELSE m2

NoMemOp ==
    [op |-> "none", count |-> 0, current_turn |-> 0, compressed |-> FALSE,
     provider |-> "none", insight |-> 0, known |-> 0]

\* the n-th call appends iteration n; turns do not go back
update_memory ==
    /\ mlast.count < MaxIterations
    /\ \E gap \in 0..MaxTurnGap :
        LET current_turn == mlast.current_turn + gap
            new_iteration == OODAIteration(mlast.count + 1)
        IN  /\ mem' = UpdateMemory(mem, new_iteration, current_turn,
                                   mlast.provider)
            /\ mlast' = [mlast EXCEPT
                           !.op = "update_memory",
                           !.count = @ + 1,
                           !.current_turn = current_turn,
                           !.compressed =
                               ShouldCompress(
                                   [mem EXCEPT !.hot_memory =
                                       Append(@, new_iteration)],
                                   current_turn)]
    /\ UNCHANGED <<caseVars, hypVars, listVars, ioVars>>

MaxInsights == 12       \* distinct insight strings
MaxInsightOps == 13     \* calls of add_persistent_insight

PERSISTENT_INSIGHTS_CAP == 10   \* insights kept

\* a variant that appends without looking for the insight in the list
AddPersistentInsight_NoDedup(memory, insight) ==
    LET m1 == [memory EXCEPT !.persistent_insights = Append(@, insight)]
    IN  IF Len(m1.persistent_insights) > PERSISTENT_INSIGHTS_CAP
        THEN [m1 EXCEPT !.persistent_insights =
                 SubSeq(@, Len(@) - PERSISTENT_INSIGHTS_CAP + 1, Len(@))]
        ELSE m1

\* add_persistent_insight
AddPersistentInsight(memory, insight) ==
    LET m1 == IF InSeq(insight, memory.persistent_insights) THEN memory
              ELSE [memory EXCEPT !.persistent_insights = Append(@, insight)]
    IN  IF Len(m1.persistent_insights) > PERSISTENT_INSIGHTS_CAP
        THEN [m1 EXCEPT !.persistent_insights =
                 SubSeq(@, Len(@) - PERSISTENT_INSIGHTS_CAP + 1, Len(@))]
        ELSE m1

\* insights are strings compared for equality only: the k-th string that is
\* new to the caller is named k, and a call passes a string used before or
\* the next new one
add_persistent_insight ==
    /\ mlast.count < MaxInsightOps
    /\ \E insight \in 1..MaxInsights :
        /\ insight <= mlast.known + 1
        /\ mem' = AddPersistentInsight(mem, insight)
        /\ mlast' = [mlast EXCEPT
                       !.op = "add_persistent_insight",
                       !.count = @ + 1,
                       !.insight = insight,
                       !.known = IF insight > @ THEN insight ELSE @]
    /\ UNCHANGED <<caseVars, hypVars, listVars, ioVars>>

-----------------------------------------------------------------------------
(* Concurrent requests: agent.py *)

MaxRequests == 2        \* agent_chat requests for the one case id

Requests == 1..MaxRequests

\* a request that has not loaded the case yet
NoRequest == [pc |-> "idle", case |-> NewCase(NoStatement)]

\* agent_chat, step 1: the request awaits get_case and holds the Case object
\* it returns; nothing in agent_chat waits for other requests on the case id
agent_chat_get_case ==
    /\ \E r \in Requests :
        /\ req[r].pc = "idle"
        /\ req' = [req EXCEPT ![r] = [pc |-> "loaded", case |-> case]]
    /\ UNCHANGED <<caseVars, hypVars, listVars, memVars, llm>>

\* agent_chat, step 4: process_turn on the Case object the request holds,
\* ending with update_case, which stores that object
agent_chat_process_turn ==
    /\ \E r \in Requests, user_message \in UserMessages,
          llm_response \in LLMResponses, attachments \in AttachmentLists :
        LET c0 == req[r].case
            md0 == ProcessResponse(c0, user_message, llm_response,
                                   NoToolCalls, attachments).metadata
        IN  /\ req[r].pc = "loaded"
            /\ c0.status \in CaseStatus
            /\ c0.current_turn < MaxTurns
            /\ Len(c0.uploaded_files) + Len(attachments) <= MaxUploads
            /\ \E current_stage \in StagesRead(c0, md0) :
                LET t == RunTurn(c0, user_message, llm_response, NoToolCalls,
                                 attachments, current_stage)
                IN  /\ case' = t.case
                    /\ last' = [TurnReport(c0, t.metadata, "none", FALSE)
                                   EXCEPT !.attachments = Truthy(attachments),
                                          !.attachment_count =
                                             Len(attachments),
                                          !.object_changed = (t.case # c0)]
                    /\ req' = [req EXCEPT ![r] =
                                  [pc |-> "done", case |-> t.case]]
    /\ UNCHANGED <<hypVars, listVars, memVars, llm>>

-----------------------------------------------------------------------------
(* The multi-provider LLM client: multi_provider.py *)

MaxProviders == 3       \* providers initialized from the environment

ProviderOutcomes == {"ok", "raise"}

\* MultiProviderLLM.__init__: the providers are named by their position in
\* self.providers; task_provider is what the task configuration names: 0 for
\* "auto", 1..providers for a configured provider, providers + 1 for a
\* provider that is not configured
LLMConfigs ==
    {[providers |-> n, task_provider |-> t, strict_mode |-> strict] :
        n \in 0..MaxProviders, t \in 0..(MaxProviders + 1), strict \in BOOLEAN}

NoCall ==
    [op |-> "none", task_outcome |-> "ok", outcomes |-> <<>>,
     result |-> "none", content |-> 0, error |-> "none", calls |-> <<>>]

\* a variant that falls back to the automatic chain in strict mode too
ResolveTaskProvider_WarnOnly(config) ==
    IF config.task_provider = 0
    THEN [raised |-> FALSE, provider |-> 0]
    ELSE IF config.task_provider <= config.providers
    THEN [raised |-> FALSE, provider |-> config.task_provider]
    ELSE [raised |-> FALSE, provider |-> 0]

\* _resolve_task_provider: the provider to try first (0: none), or the
\* RuntimeError of strict mode
ResolveTaskProvider(config) ==
    IF config.task_provider = 0
    THEN [raised |-> FALSE, provider |-> 0]
    ELSE IF config.task_provider <= config.providers
    THEN [raised |-> FALSE, provider |-> config.task_provider]
    ELSE IF config.strict_mode
    THEN [raised |-> TRUE, provider |-> 0]
    ELSE [raised |-> FALSE, provider |-> 0]

\* a variant of the fallback loop that keeps trying after a success and
\* returns the content of the last provider that succeeded
RECURSIVE FallbackChain_KeepGoing(_, _, _, _)
FallbackChain_KeepGoing(n, outcomes, i, calls) ==
    IF i > n
    THEN IF \E k \in 1..n : outcomes[k] = "ok"
         THEN [NoCall EXCEPT !.result = "returned",
                  !.content = CHOOSE k \in 1..n :
                                 /\ outcomes[k] = "ok"
                                 /\ \A m \in (k + 1)..n : outcomes[m] # "ok",
                  !.calls = calls]
         ELSE [NoCall EXCEPT !.result = "raised", !.error = "all_failed",
                             !.calls = calls]
    ELSE FallbackChain_KeepGoing(n, outcomes, i + 1, Append(calls, i))

\* a variant of the fallback loop that returns an empty text when every
\* provider has failed
RECURSIVE FallbackChain_DefaultOnFailure(_, _, _, _)
FallbackChain_DefaultOnFailure(n, outcomes, i, calls) ==
    IF i > n
    THEN [NoCall EXCEPT !.result = "returned", !.calls = calls]
    ELSE IF outcomes[i] = "ok"
    THEN [NoCall EXCEPT !.result = "returned", !.content = i,
                        !.calls = Append(calls, i)]
    ELSE FallbackChain_DefaultOnFailure(n, outcomes, i + 1, Append(calls, i))

\* generate, the automatic fallback chain from provider i on: calls lists
\* the providers invoked so far
RECURSIVE FallbackChain(_, _, _, _)
FallbackChain(n, outcomes, i, calls) ==
    IF i > n
    THEN [NoCall EXCEPT !.result = "raised", !.error = "all_failed",
                        !.calls = calls]
    ELSE IF outcomes[i] = "ok"
    THEN [NoCall EXCEPT !.result = "returned", !.content = i,
                        !.calls = Append(calls, i)]
    ELSE FallbackChain(n, outcomes, i + 1, Append(calls, i))

\* MultiProviderLLM.generate; task_outcome is what the task-specific provider
\* does when it is tried first, outcomes[i] what provider i does in the chain
Generate(config, task_outcome, outcomes) ==
    IF config.providers = 0
    THEN [NoCall EXCEPT !.result = "raised", !.error = "no_providers"]
    ELSE LET task == ResolveTaskProvider(config)
         IN  IF task.raised
             THEN [NoCall EXCEPT !.result = "raised", !.error = "strict_mode"]
             ELSE IF task.provider = 0
             THEN FallbackChain(config.providers, outcomes, 1, <<>>)
             ELSE IF task_outcome = "ok"
             THEN [NoCall EXCEPT !.result = "returned",
                                 !.content = task.provider,
                                 !.calls = <<task.provider>>]
             ELSE IF config.strict_mode
             THEN [NoCall EXCEPT !.result = "raised",
                                 !.error = "strict_mode",
                                 !.calls = <<task.provider>>]
             ELSE FallbackChain(config.providers, outcomes, 1,
                                <<task.provider>>)

\* one call of generate on the client
generate ==
    /\ \E task_outcome \in ProviderOutcomes,
          outcomes \in [1..llm.config.providers -> ProviderOutcomes] :
        llm' = [llm EXCEPT !.call =
                   [Generate(llm.config, task_outcome, outcomes) EXCEPT
                       !.op = "generate",
                       !.task_outcome = task_outcome,
                       !.outcomes = outcomes]]
    /\ UNCHANGED <<caseVars, hypVars, listVars, memVars, req>>

-----------------------------------------------------------------------------
(* Specifications *)

InitCase ==
    /\ case \in {NewCase(p) : p \in {NoStatement, ProposedStatement}}
    /\ last = NoTurn

IdleHyp == hyp = 0 /\ hlast = 0
IdleList == hlist = <<>> /\ hres = 0
IdleMem == mem = 0 /\ mlast = 0
IdleIO == llm = 0 /\ req = 0

Init == InitCase /\ IdleHyp /\ IdleList /\ IdleMem /\ IdleIO

Next == process_turn \/ close_case

Spec == Init /\ [][Next]_vars

\* Turns observed with the LLM result they were given
InitLLMResult ==
    /\ InitCase /\ IdleHyp /\ IdleList /\ IdleMem
    /\ llm = [tool_calls |-> NoToolCalls]
    /\ req = 0

NextLLMResult == process_turn_llm_result \/ close_case

SpecLLMResult == InitLLMResult /\ [][NextLLMResult]_vars

NextStructured == process_turn \/ process_turn_structured \/ close_case

SpecStructured == Init /\ [][NextStructured]_vars

\* Turns that can fail: the case service may hand over a case whose status
\* is none of the four, the provider's generate may raise, update_case may
\* raise.
InitFaults ==
    /\ case \in {NewCase(p) : p \in {NoStatement, ProposedStatement}}
                \cup {[NewCase(NoStatement) EXCEPT !.status = UnknownStatus]}
    /\ last = NoTurn
    /\ IdleHyp /\ IdleList /\ IdleMem /\ IdleIO

NextFaults ==
    \/ process_turn
    \/ process_turn_save_error
    \/ process_turn_llm_error
    \/ process_turn_unknown_status
    \/ close_case

SpecFaults == InitFaults /\ [][NextFaults]_vars

IdleCase == case = NewCase(NoStatement) /\ last = NoTurn

\* a hypothesis as create_hypothesis returns it, ACTIVE (systematic) or
\* CAPTURED (opportunistic)
InitHyp ==
    /\ hyp \in {CreateHypothesis("network", l, 0, st) :
                    l \in InitialLikelihoods, st \in {"active", "captured"}}
    /\ hlast = NoHypOp

NextHyp ==
    \/ link_evidence
    \/ update_confidence_from_evidence
    \/ update_hypothesis_confidence
    \/ record_hypothesis_test
    \/ apply_confidence_decay
    \/ refute_hypothesis

\* a fresh HierarchicalMemory and a manager built with one of the providers
InitMem ==
    /\ mem = EmptyMemory
    /\ mlast \in {[NoMemOp EXCEPT !.provider = p] : p \in SummaryProviders}

NextMem == update_memory

InitMemory == IdleCase /\ IdleHyp /\ IdleList /\ InitMem /\ IdleIO

SpecMem == InitMemory /\ [][NextMem]_vars

\* add_persistent_insight called on the memory initialize_memory returns
InitInsights ==
    /\ IdleCase /\ IdleHyp /\ IdleList /\ IdleIO
    /\ mem = EmptyMemory /\ mlast = NoMemOp

NextInsights == add_persistent_insight

SpecInsights == InitInsights /\ [][NextInsights]_vars

InitList == hlist = <<>> /\ hres = NoListResult

NextList == add_hypothesis \/ detect_anchoring \/ force_alternative_generation

InitHypothesisList == IdleCase /\ IdleHyp /\ InitList /\ IdleMem /\ IdleIO

SpecList == InitHypothesisList /\ [][NextList]_vars

InitHypothesis == IdleCase /\ InitHyp /\ IdleList /\ IdleMem /\ IdleIO

SpecHyp == InitHypothesis /\ [][NextHyp]_vars

\* the engine's operations on one hypothesis, and the two queries
NextQueries == NextHyp \/ validated_queries

SpecQueries == InitHypothesis /\ [][NextQueries]_vars

\* one hypothesis worked on by evidence linking, test recording and decay
NextEvidence ==
    \/ link_evidence
    \/ record_hypothesis_test
    \/ apply_confidence_decay

SpecEvidence == InitHypothesis /\ [][NextEvidence]_vars

\* requests for one case arrive together
InitConcurrent ==
    /\ case \in {NewCase(p) : p \in {NoStatement, ProposedStatement}}
    /\ last = NoTurn
    /\ IdleHyp /\ IdleList /\ IdleMem
    /\ llm = 0
    /\ req = [r \in Requests |-> NoRequest]

NextConcurrent == agent_chat_get_case \/ agent_chat_process_turn

SpecConcurrent == InitConcurrent /\ [][NextConcurrent]_vars

\* a client built from some environment
InitLLM ==
    /\ IdleCase /\ IdleHyp /\ IdleList /\ IdleMem
    /\ llm \in {[config |-> c, call |-> NoCall] :
                  c \in {d \in LLMConfigs : d.task_provider <= d.providers + 1}}
    /\ req = 0

NextLLM == generate

SpecLLM == InitLLM /\ [][NextLLM]_vars

-----------------------------------------------------------------------------
(* Claims about the investigation state machine *)

\* the latest step was a process_turn that returned
TurnReturned == last.op = "process_turn" /\ last.raised = "none"

\* a step that is a returned process_turn on a case in one of `statuses`
TurnStepFrom(statuses) ==
    /\ case.status \in statuses
    /\ last'.op = "process_turn" /\ last'.raised = "none"
    /\ case'.current_turn = case.current_turn + 1

\* C1: no milestone flag ever changes from true to false, whatever the turn
\* does (keyword fallback, structured milestone updates, the transition to
\* INVESTIGATING).
C1_MilestonesMonotonic ==
    [][\A m \in MilestoneNames :
          case.progress.flags[m] => case'.progress.flags[m]]_vars

\* a flag set by a structured update and one set by the keyword fallback
\* have both survived a later turn that changed nothing
C1_Witness ==
    /\ TurnReturned /\ ~last.progress_made
    /\ case.status = "investigating"
    /\ case.progress.flags["scope_assessed"]
    /\ case.progress.flags["solution_proposed"]

\* C8: a CONSULTING turn moves the case to INVESTIGATING exactly when, after
\* the message is processed, problem_statement_confirmed and
\* decided_to_investigate are both true; confirmation needs a proposed
\* statement, the decision needs the confirmation, and the transition copies
\* the proposed statement into the description and leaves all flags false.
C8_ConsultingTransition ==
    /\ [](case.consulting.problem_statement_confirmed
            => case.consulting.proposed_problem_statement # NoStatement)
    /\ [](case.consulting.decided_to_investigate
            => case.consulting.problem_statement_confirmed)
    /\ [][TurnStepFrom({"consulting"}) =>
            /\ (case'.status = "investigating")
                 <=> (case'.consulting.problem_statement_confirmed
                      /\ case'.consulting.decided_to_investigate)
            /\ case'.status \in {"consulting", "investigating"}
            /\ last'.status_transitioned <=> case'.status = "investigating"
            /\ case'.status = "investigating" =>
                 /\ case'.description
                      = case.consulting.proposed_problem_statement
                 /\ case'.description # NoStatement
                 /\ \A m \in MilestoneNames : ~case'.progress.flags[m]]_vars

\* the turn that just returned made the transition
C8_Witness ==
    /\ TurnReturned /\ last.status_transitioned
    /\ last.status_before = "consulting"
    /\ case.status = "investigating"
    /\ case.description = ProposedStatement

\* C9: no returned turn leaves the case INVESTIGATING with solution_verified
\* true; a RESOLVED case carries closure_reason "resolved" and both stamps;
\* a turn makes a case RESOLVED only from INVESTIGATING with solution_verified.
C9_AutoResolve ==
    /\ [](~(case.status = "investigating"
            /\ case.progress.flags["solution_verified"]))
    /\ [](case.status = "resolved" =>
            /\ case.closure_reason = "resolved"
            /\ case.resolved_at > 0 /\ case.closed_at > 0)
    /\ [][(case'.status = "resolved" /\ case.status # "resolved") =>
            /\ case.status = "investigating"
            /\ last'.op = "process_turn"
            /\ case'.progress.flags["solution_verified"]
            /\ case'.resolved_at = case'.current_turn
            /\ case'.closed_at = case'.current_turn]_vars

\* solution_verified was set in the turn that just returned, on an
\* INVESTIGATING case, and the case is RESOLVED
C9_Witness ==
    /\ TurnReturned /\ last.status_before = "investigating"
    /\ last.outcome = "milestone_completed"
    /\ case.status = "resolved"
    /\ case.progress.flags["solution_verified"]

\* the fields of the case that a turn may not touch on a terminal case
FrozenFields(c) ==
    <<c.status, c.progress, c.hypotheses, c.evidence, c.uploaded_files,
      c.consulting, c.description, c.solutions, c.closure_reason,
      c.resolved_at, c.closed_at>>

C11_TerminalNeverDegraded ==
    [][TurnStepFrom({"resolved", "closed"}) =>
         case'.degraded_mode = case.degraded_mode]_vars

\* what a turn changed between the loaded case c and the saved case d: a
\* consulting or milestone flag newly set, a file uploaded, evidence added
TurnChanged(c, d) ==
    \/ \E m \in MilestoneNames : d.progress.flags[m] /\ ~c.progress.flags[m]
    \/ d.consulting.problem_statement_confirmed
       /\ ~c.consulting.problem_statement_confirmed
    \/ d.consulting.decided_to_investigate
       /\ ~c.consulting.decided_to_investigate
    \/ Len(d.uploaded_files) > Len(c.uploaded_files)
    \/ Len(d.evidence) > Len(c.evidence)

\* C12: in every status, a returned turn that changed nothing increments
\* turns_without_progress by exactly 1; a returned turn that changed something
\* resets it to 0 and leaves no degraded mode active.
C12_ProgressCounter ==
    [][TurnStepFrom(CaseStatus) =>
         IF TurnChanged(case, case')
         THEN case'.turns_without_progress = 0
              /\ ~case'.degraded_mode.active
         ELSE case'.turns_without_progress = case.turns_without_progress + 1]_vars

\* C13: after every returned turn, turns_without_progress >= 3 implies that a
\* degraded mode is active; the record is created by a no-progress turn that
\* brings the counter from 2 to 3, has type no_progress and a reason that
\* cites the counter value.
C13_DegradedAtThree ==
    [][TurnStepFrom(CaseStatus) =>
         /\ case'.turns_without_progress >= DEGRADED_AFTER_TURNS
               => case'.degraded_mode.active
         /\ ~case.degraded_mode.active /\ case'.degraded_mode.active
               => /\ ~last'.progress_made
                  /\ case.turns_without_progress = DEGRADED_AFTER_TURNS - 1
                  /\ case'.turns_without_progress = DEGRADED_AFTER_TURNS
                  /\ case'.degraded_mode.mode_type = "no_progress"
                  /\ case'.degraded_mode.reason_turns
                        = case'.turns_without_progress
                  /\ case'.degraded_mode.entered_at = case'.current_turn]_vars

\* an investigating case entered degraded mode on its third turn in a row
\* without progress
C13_Witness ==
    /\ TurnReturned /\ ~last.progress_made
    /\ case.status = "investigating"
    /\ case.turns_without_progress = DEGRADED_AFTER_TURNS
    /\ case.degraded_mode.active
    /\ case.degraded_mode.entered_at = case.current_turn
    /\ case.degraded_mode.reason_turns = DEGRADED_AFTER_TURNS

\* C14: at most one degraded mode at a time: entering a degraded mode on a
\* case that already has one active leaves the case as it is, and a returned
\* no-progress turn on a case in degraded mode leaves the degraded-mode
\* record unchanged.
C14_SingleDegradedMode ==
    [][TurnStepFrom(CaseStatus) =>
         /\ case'.degraded_mode.active
               => \A current_stage \in InvestigationStages :
                     EnterDegradedMode(case', current_stage) = case'
         /\ case.degraded_mode.active /\ ~last'.progress_made
               => case'.degraded_mode = case.degraded_mode]_vars

\* a second turn in a row without progress after degraded mode was entered
C14_Witness ==
    /\ TurnReturned /\ ~last.progress_made
    /\ case.degraded_mode.active
    /\ case.degraded_mode.entered_at < case.current_turn
    /\ case.turns_without_progress > case.degraded_mode.reason_turns

\* a call of process_turn, returned or raised
TurnCall == last'.op = "process_turn"

\* d is c after every mutation of one turn: the turn is counted and logged,
\* the progress counter is updated, degraded mode is checked and the
\* automatic transition is applied
TurnCompleted(c, d, progress_made) ==
    /\ d.current_turn = c.current_turn + 1
    /\ Len(d.turn_history) = Len(c.turn_history) + 1
    /\ d.turn_history[Len(d.turn_history)].turn_number = d.current_turn
    /\ d.turns_without_progress =
          IF progress_made THEN 0 ELSE c.turns_without_progress + 1
    /\ d.turns_without_progress >= DEGRADED_AFTER_TURNS
          => d.degraded_mode.active
    /\ ~(d.status = "investigating" /\ d.progress.flags["solution_verified"])

\* C15: one call of process_turn invokes update_case at most once; when an
\* earlier step raised (prompt building, the provider) it is not invoked, the
\* stored case is unchanged and the caller receives a MilestoneEngineError;
\* whenever the stored case changes, it is the case after every mutation of
\* the turn.
C15_SaveOnlyAfterSuccess ==
    [][TurnCall =>
         /\ last'.save_calls <= 1
         /\ last'.raised \in {"status", "llm"}
               => /\ last'.save_calls = 0
                  /\ case' = case
                  /\ last'.error = "MilestoneEngineError"
         /\ last'.raised = "none" => last'.save_calls = 1
         /\ case' # case
               => /\ last'.save_calls = 1
                  /\ TurnCompleted(case, case', last'.progress_made)]_vars

\* the provider raised on a case that an earlier turn had saved: the stored
\* case still is the one of that turn, and update_case was not invoked
C15_Witness ==
    /\ last.op = "process_turn" /\ last.raised = "llm"
    /\ last.save_calls = 0
    /\ last.error = "MilestoneEngineError"
    /\ case.current_turn >= 1
    /\ Len(case.turn_history) = case.current_turn

\* C16 as stated: when update_case raises, the caller receives that same
\* error, not replaced by and not wrapped in another error type.
C16_SaveErrorUnchanged ==
    last.op = "process_turn" /\ last.raised = "save"
        => last.error = StepError("save") /\ last.cause = "none"

\* C16: when update_case raises, the caller receives a MilestoneEngineError
\* whose cause is the error update_case raised; update_case was invoked once
\* and the stored case is unchanged.
C16_SaveErrorWrapped ==
    [][TurnCall /\ last'.raised = "save" =>
         /\ last'.error = "MilestoneEngineError"
         /\ last'.cause = StepError("save")
         /\ last'.save_calls = 1
         /\ ~last'.saved
         /\ case' = case]_vars

\* update_case raised on the second turn of a case
C16_Witness ==
    /\ last.op = "process_turn" /\ last.raised = "save"
    /\ last.error = "MilestoneEngineError"
    /\ last.cause = "CaseClientError"
    /\ case.current_turn = 1

\* C17 as stated: a call of process_turn on a case whose status is
\* unrecognized or terminal gives the caller a MilestoneEngineError.
C17_InvalidStateIsError ==
    last.op = "process_turn"
    /\ last.status_before \notin {"consulting", "investigating"}
        => last.error = "MilestoneEngineError"

\* C17: a call of process_turn on a case whose status is unrecognized raises
\* MilestoneEngineError from prompt building, with nothing saved and the
\* stored case unchanged; a call on a RESOLVED or CLOSED case never fails on
\* the status: it returns normally with the turn counted, unless the provider
\* or the save raised.
C17_UnknownStatusIsError ==
    [][TurnCall =>
         /\ case.status \notin CaseStatus
               => /\ last'.raised = "status"
                  /\ last'.error = "MilestoneEngineError"
                  /\ last'.save_calls = 0
                  /\ case' = case
         /\ case.status \in {"resolved", "closed"}
               => /\ last'.raised \in {"none", "llm", "save"}
                  /\ last'.raised = "none"
                        => /\ last'.error = "none"
                           /\ case'.current_turn = case.current_turn + 1
                           /\ case'.status = case.status]_vars

\* process_turn raised on a case of unknown status
C17_Witness ==
    /\ last.op = "process_turn" /\ last.raised = "status"
    /\ last.status_before = UnknownStatus
    /\ last.error = "MilestoneEngineError"
    /\ case.status = UnknownStatus /\ case.current_turn = 0

\* a milestone completed in the turn from c to d
MilestoneCompleted(c, d) ==
    \E m \in MilestoneNames : d.progress.flags[m] /\ ~c.progress.flags[m]

\* the outcome the priority rule gives a turn
OutcomeByPriority(milestone_completed, attachments) ==
    IF milestone_completed THEN "milestone_completed"
    ELSE IF attachments THEN "data_provided"
    ELSE "conversation"

-----------------------------------------------------------------------------
(* Claims about the hypothesis confidence engine *)

\* the operations that end in _check_status_transition
TransitionOps ==
    {"link_evidence", "update_confidence_from_evidence",
     "update_hypothesis_confidence", "record_hypothesis_test"}

\* C2: whatever sequence of link_evidence, update_confidence_from_evidence,
\* update_hypothesis_confidence, record_hypothesis_test,
\* apply_confidence_decay and refute_hypothesis is applied to a hypothesis
\* created with initial_likelihood in [0,1], its likelihood stays in [0,1].
C2_LikelihoodInRange == hyp.likelihood >= 0 /\ hyp.likelihood <= 1000

\* update_hypothesis_confidence was asked for a likelihood above 1.0 and
\* stored 1.0
C2_Witness ==
    /\ hlast.op = "update_hypothesis_confidence"
    /\ hlast.arg > 1000
    /\ hyp.likelihood = 1000

\* the status the priority order of the claim gives an ACTIVE hypothesis
PriorityStatus(likelihood, supporting, refuting) ==
    IF likelihood >= 700 /\ supporting >= 2 THEN "validated"
    ELSE IF likelihood <= 200 /\ refuting >= 2 THEN "refuted"
    ELSE IF likelihood < 300 THEN "retired"
    ELSE "active"

\* C3: an operation that runs the status-transition check on an ACTIVE
\* hypothesis leaves it with the status of the first matching rule in the
\* order VALIDATED (likelihood >= 0.70, >= 2 supporting), REFUTED
\* (likelihood <= 0.20, >= 2 refuting), RETIRED (likelihood < 0.30), and
\* ACTIVE when none matches; with likelihood 0.75, 2 supporting and
\* 3 refuting items that is VALIDATED.
C3_TransitionPriority ==
    [][(hyp.status = "active" /\ hlast'.op \in TransitionOps) =>
         /\ hyp'.status = PriorityStatus(hyp'.likelihood,
                                         Len(hyp'.supporting_evidence),
                                         Len(hyp'.refuting_evidence))
         /\ (/\ hyp'.likelihood = 750
             /\ Len(hyp'.supporting_evidence) = 2
             /\ Len(hyp'.refuting_evidence) = 3) => hyp'.status = "validated"
       ]_vars

\* the check has just run on likelihood 0.75 with 2 supporting and
\* 3 refuting items
C3_Witness ==
    /\ hlast.op = "record_hypothesis_test" /\ hlast.result = "supports"
    /\ hyp.likelihood = 750
    /\ Len(hyp.supporting_evidence) = 2
    /\ Len(hyp.refuting_evidence) = 3
    /\ hyp.status = "validated"

\* C4: after update_confidence_from_evidence, and so after link_evidence,
\* likelihood = clamp(initial_likelihood + 0.15 s - 0.20 r, 0, 1) for s
\* supporting and r refuting items; an ACTIVE hypothesis created at 0.5 that
\* receives its second distinct supporting link has likelihood 0.80 and is
\* VALIDATED.
C4_EvidenceFormula ==
    [][hlast'.op \in {"link_evidence", "update_confidence_from_evidence"} =>
         /\ hyp'.likelihood =
              Clamp(hyp'.initial_likelihood
                    + 150 * Len(hyp'.supporting_evidence)
                    - 200 * Len(hyp'.refuting_evidence))
         /\ (/\ hlast'.op = "link_evidence" /\ hlast'.count = 2
             /\ hlast.op = "link_evidence"
             /\ hyp.status = "active" /\ hyp.initial_likelihood = 500
             /\ Len(hyp.supporting_evidence) = 1
             /\ Len(hyp'.supporting_evidence) = 2
             /\ hyp'.refuting_evidence = <<>>)
            => (hyp'.likelihood = 800 /\ hyp'.status = "validated")]_vars

\* the second of two supporting links on a hypothesis created at 0.5
C4_Witness ==
    /\ hlast.op = "link_evidence" /\ hlast.result = "supports"
    /\ hlast.count = 2
    /\ hyp.initial_likelihood = 500
    /\ Len(hyp.supporting_evidence) = 2 /\ hyp.refuting_evidence = <<>>
    /\ hyp.likelihood = 800 /\ hyp.status = "validated"

\* C5: apply_confidence_decay on a hypothesis with
\* iterations_without_progress < 2 changes no field of it.
C5_DecayNoOp ==
    [][(hlast'.op = "apply_confidence_decay"
        /\ hyp.iterations_without_progress < 2) => hyp' = hyp]_vars

\* decay was just called on a hypothesis one iteration stagnant, whose
\* likelihood a decay would have lowered
C5_Witness ==
    /\ hlast.op = "apply_confidence_decay"
    /\ hyp.iterations_without_progress = 1
    /\ hyp.likelihood >= 100

-----------------------------------------------------------------------------
(* Claims about anchoring detection *)

\* the positions of hlist that are neither RETIRED nor REFUTED
LivePositions ==
    {i \in 1..Len(hlist) : hlist[i].status \notin {"retired", "refuted"}}

StalledPositions ==
    {i \in LivePositions : hlist[i].iterations_without_progress >= 3}

CrowdedCategories ==
    {c \in Categories :
        Cardinality({i \in LivePositions : hlist[i].category = c}) >= 4}

\* the first, in list order, of the live hypotheses of greatest likelihood
TopPosition ==
    CHOOSE i \in LivePositions :
        /\ \A j \in LivePositions : hlist[j].likelihood <= hlist[i].likelihood
        /\ \A j \in LivePositions :
              hlist[j].likelihood = hlist[i].likelihood => i <= j

\* ids lists exactly the hypotheses at `positions`, in list order
ListsExactly(ids, positions) ==
    /\ Len(ids) = Cardinality(positions)
    /\ {ids[i] : i \in 1..Len(ids)} = {hlist[p].hypothesis_id : p \in positions}
    /\ \A i, j \in 1..Len(ids) : i < j => ids[i] < ids[j]

-----------------------------------------------------------------------------
(* Claims about the hierarchical memory *)

\* the last n elements of seq
LastOf(seq, n) == SubSeq(seq, Len(seq) - n + 1, Len(seq))

\* C7: when update_memory returns, whether or not the compression predicate
\* held, hot_memory has at most HOT_TIER_SIZE (2) entries, it holds the most
\* recently appended iterations in append order, and the iterations that
\* overflowed were promoted, oldest first, into the newest warm snapshot.
C7_HotTierBounded ==
    /\ [](Len(mem.hot_memory) <= 2)
    /\ [][mlast'.count = mlast.count + 1 =>
            LET appended == Append(mem.hot_memory,
                                   [iteration_number |-> mlast'.count])
                kept == IF Len(appended) <= 2 THEN Len(appended) ELSE 2
                overflow == SubSeq(appended, 1, Len(appended) - kept)
                newest == mem'.warm_snapshots[Len(mem'.warm_snapshots)]
            IN  /\ mem'.hot_memory = LastOf(appended, kept)
                /\ overflow # <<>> =>
                     /\ mem'.warm_snapshots # <<>>
                     /\ newest.evidence_collected
                          = [i \in 1..Len(overflow) |->
                                overflow[i].iteration_number]
                     /\ newest.iteration_range
                          = <<overflow[1].iteration_number,
                              overflow[Len(overflow)].iteration_number>>
                /\ overflow = <<>> =>
                     mem'.warm_snapshots = mem.warm_snapshots]_vars

\* an update without compression has just pushed the oldest hot iteration
\* into a new warm snapshot
C7_Witness ==
    /\ mlast.op = "update_memory" /\ ~mlast.compressed
    /\ mlast.count >= 4
    /\ Len(mem.hot_memory) = 2
    /\ mem.hot_memory[2].iteration_number = mlast.count
    /\ mem.warm_snapshots # <<>>
    /\ mem.warm_snapshots[Len(mem.warm_snapshots)].iteration_range
         = <<mlast.count - 2, mlast.count - 2>>

\* C19: with a summarizer whose generate raises, every update_memory call
\* completes, and the memory it leaves (the tiers, the new snapshot and its
\* summary) is the one the same call leaves when no summarizer is
\* configured.
C19_SummarizerFallback ==
    [][mlast'.op = "update_memory" /\ mlast'.provider = "failing" =>
         mem' = UpdateMemory(mem, OODAIteration(mlast'.count),
                             mlast'.current_turn, "none")]_vars

\* a promotion to the warm tier happened while the summarizer was failing
C19_Witness ==
    /\ mlast.op = "update_memory" /\ mlast.provider = "failing"
    /\ Len(mem.warm_snapshots) >= 1
    /\ mem.warm_snapshots[Len(mem.warm_snapshots)].summary.text = "simple"
    /\ mem.warm_snapshots[Len(mem.warm_snapshots)].iteration_range[2]
          = mlast.count - HOT_TIER_SIZE

\* no string occurs twice in seq
NoDuplicates(seq) ==
    \A i, j \in 1..Len(seq) : seq[i] = seq[j] => i = j

\* C20: starting from an empty list, after every add_persistent_insight call
\* persistent_insights has no duplicate and at most 10 entries; adding an
\* insight that is present leaves the list unchanged; adding a new one puts
\* it at the end behind the others in their order, and when the list already
\* held 10 the oldest (first) one is dropped.
C20_PersistentInsights ==
    [][mlast'.op = "add_persistent_insight" =>
         LET old == mem.persistent_insights
             new == mem'.persistent_insights
             insight == mlast'.insight
         IN  /\ NoDuplicates(new)
             /\ Len(new) <= PERSISTENT_INSIGHTS_CAP
             /\ new = IF InSeq(insight, old) THEN old
                      ELSE IF Len(old) < PERSISTENT_INSIGHTS_CAP
                      THEN Append(old, insight)
                      ELSE Append(Tail(old), insight)]_vars

\* the 11th distinct insight has been added: the first one is gone, the
\* other ten are kept in insertion order
C20_Witness ==
    /\ mlast.op = "add_persistent_insight" /\ mlast.insight = 11
    /\ mlast.known = 11
    /\ mem.persistent_insights = [i \in 1..10 |-> i + 1]

-----------------------------------------------------------------------------
(* Claims about the multi-provider LLM client *)

\* the latest step was a call of generate with no task-specific provider
GenerateAuto ==
    /\ llm.call.op = "generate"
    /\ llm.config.providers >= 1
    /\ ~ResolveTaskProvider(llm.config).raised
    /\ ResolveTaskProvider(llm.config).provider = 0

\* the providers 1..k in their configured order
FirstProviders(k) == [i \in 1..k |-> i]

\* C21: with no task-specific provider, generate invokes the providers in
\* their configured order and returns the content of the first one that
\* succeeds: every earlier provider was invoked exactly once and failed, and
\* no provider after the successful one was invoked.
C21_FallbackOrder ==
    GenerateAuto /\ (\E k \in 1..llm.config.providers :
                        llm.call.outcomes[k] = "ok")
        => /\ llm.call.result = "returned"
           /\ llm.call.content \in 1..llm.config.providers
           /\ llm.call.outcomes[llm.call.content] = "ok"
           /\ \A i \in 1..(llm.call.content - 1) :
                 llm.call.outcomes[i] = "raise"
           /\ llm.call.calls = FirstProviders(llm.call.content)

\* of three providers the first failed and the second answered: the third
\* was not invoked
C21_Witness ==
    /\ GenerateAuto /\ llm.config.providers = 3
    /\ llm.call.outcomes = <<"raise", "ok", "ok">>
    /\ llm.call.result = "returned" /\ llm.call.content = 2
    /\ llm.call.calls = <<1, 2>>

\* every provider raises whenever it is invoked in the latest call
AllProvidersRaise ==
    /\ llm.call.task_outcome = "raise"
    /\ \A i \in 1..llm.config.providers : llm.call.outcomes[i] = "raise"

\* the task is routed to a named provider and strict mode forbids fallback
StrictRouting ==
    llm.config.strict_mode /\ llm.config.task_provider # 0

\* generate returned only what a provider it invoked had produced
ReturnedFromProvider ==
    llm.call.result = "returned"
        => /\ llm.call.content \in 1..llm.config.providers
           /\ Len(llm.call.calls) >= 1
           /\ llm.call.calls[Len(llm.call.calls)] = llm.call.content
           /\ \/ llm.call.outcomes[llm.call.content] = "ok"
              \/ /\ llm.call.task_outcome = "ok"
                 /\ llm.call.content = llm.config.task_provider

\* C22 as stated: when every configured provider raises, generate raises
\* "All LLM providers failed" after having tried each provider; with no
\* provider it raises without invoking any; it returns only when some
\* provider succeeded.
C22_AllFailTriedEach ==
    llm.call.op = "generate"
        => /\ llm.config.providers >= 1 /\ AllProvidersRaise
                 => /\ llm.call.result = "raised"
                    /\ llm.call.error = "all_failed"
                    /\ \A i \in 1..llm.config.providers :
                          InSeq(i, llm.call.calls)
           /\ llm.config.providers = 0
                 => llm.call.result = "raised" /\ llm.call.calls = <<>>
           /\ ReturnedFromProvider

\* C22: when every configured provider raises, generate raises RuntimeError:
\* "All LLM providers failed" after having tried each provider, except under
\* strict routing, where it raises the strict-mode RuntimeError after having
\* tried the task's provider only (no provider when that one is not
\* configured); with no provider it raises without invoking any; it returns
\* only when some provider succeeded.
C22_AllFailRaises ==
    llm.call.op = "generate"
        => /\ llm.config.providers >= 1 /\ AllProvidersRaise /\ ~StrictRouting
                 => /\ llm.call.result = "raised"
                    /\ llm.call.error = "all_failed"
                    /\ \A i \in 1..llm.config.providers :
                          InSeq(i, llm.call.calls)
           /\ llm.config.providers >= 1 /\ AllProvidersRaise /\ StrictRouting
                 => /\ llm.call.result = "raised"
                    /\ llm.call.error = "strict_mode"
                    /\ llm.call.calls =
                          IF llm.config.task_provider <= llm.config.providers
                          THEN <<llm.config.task_provider>> ELSE <<>>
           /\ llm.config.providers = 0
                 => llm.call.result = "raised" /\ llm.call.calls = <<>>
           /\ ReturnedFromProvider

\* three providers, all failing, each tried once in order
C22_Witness ==
    /\ llm.call.op = "generate" /\ llm.config.providers = 3
    /\ llm.config.task_provider = 0
    /\ AllProvidersRaise
    /\ llm.call.result = "raised" /\ llm.call.error = "all_failed"
    /\ llm.call.calls = <<1, 2, 3>>

-----------------------------------------------------------------------------
(* Claims about turn bookkeeping and the direction of the case status *)

\* the turn numbers of a turn history are consecutive
Consecutive(history) ==
    \A i \in 1..Len(history) - 1 :
        history[i + 1].turn_number = history[i].turn_number + 1

\* C25: every successful process_turn, in every status, increases
\* current_turn by exactly 1 and appends exactly one turn record whose
\* turn_number is the new current_turn; the turn numbers of turn_history are
\* consecutive, and current_turn never decreases.
C25_TurnBookkeeping ==
    [][/\ case'.current_turn >= case.current_turn
       /\ (last'.op = "process_turn" /\ last'.saved)
          => /\ case'.current_turn = case.current_turn + 1
             /\ Len(case'.turn_history) = Len(case.turn_history) + 1
             /\ SubSeq(case'.turn_history, 1, Len(case.turn_history))
                   = case.turn_history
             /\ case'.turn_history[Len(case'.turn_history)].turn_number
                   = case'.current_turn
             /\ Consecutive(case'.turn_history)]_vars

\* a turn on a RESOLVED case has been counted after two earlier turns
C25_Witness ==
    /\ last.op = "process_turn" /\ last.saved
    /\ last.status_before = "resolved"
    /\ case.current_turn >= 3
    /\ Len(case.turn_history) = case.current_turn

\* the position of a status on the path CONSULTING, INVESTIGATING, RESOLVED;
\* CLOSED is entered by the case service only
StatusRank(status) ==
    CASE status = "consulting" -> 0
      [] status = "investigating" -> 1
      [] status = "resolved" -> 2
      [] OTHER -> 3

\* C26: across process_turn calls the status follows CONSULTING, then
\* INVESTIGATING, then RESOLVED: a turn leaves the status alone or moves it
\* one step forward, never backwards, never out of RESOLVED or CLOSED, and
\* never to CLOSED.
C26_StatusForwardOnly ==
    [][(last'.op = "process_turn" /\ last'.saved)
       => /\ case'.status \in CaseStatus
          /\ \/ case'.status = case.status
             \/ StatusRank(case'.status) = StatusRank(case.status) + 1
          /\ case.status \in {"resolved", "closed"}
               => case'.status = case.status
          /\ case'.status = "closed" => case.status = "closed"]_vars

\* one turn has moved an INVESTIGATING case to RESOLVED, and one has run on
\* it since
C26_Witness ==
    /\ last.op = "process_turn" /\ last.saved
    /\ last.status_before = "resolved"
    /\ case.status = "resolved"
    /\ \E i \in 1..Len(case.turn_history) :
          case.turn_history[i].turn_number = case.resolved_at

(* Claims about structured milestone facts *)

\* the LLM result of the latest turn carried an update_milestones call that
\* reports milestone m completed
Delivered(result, m) ==
    /\ result.present
    /\ \E i \in 1..Len(result.calls) :
          /\ result.calls[i].name = "update_milestones"
          /\ \E j \in 1..Len(result.calls[i].milestones) :
                /\ result.calls[i].milestones[j].milestone = m
                /\ result.calls[i].milestones[j].completed

\* C24: in an INVESTIGATING turn the structured milestone facts carried by
\* the LLM result are applied to the case's milestone flags: a successful
\* turn whose LLM result reports solution_verified leaves solution_verified
\* set and the case RESOLVED.
C24_StructuredFactsApplied ==
    [][(/\ last'.op = "process_turn" /\ last'.saved
        /\ case.status = "investigating"
        /\ case'.current_turn = case.current_turn + 1
        /\ Delivered(llm'.tool_calls, "solution_verified"))
       => (/\ case'.progress.flags["solution_verified"]
           /\ case'.status = "resolved")]_vars

\* no sequence of process_turn calls brings a case to RESOLVED
C24_NeverResolved == case.status # "resolved"

(* Claims about concurrent requests *)

\* C23: two agent_chat requests for the same case id do not interleave their
\* get_case, process_turn and update_case steps: once all of them have
\* succeeded, the stored case has current_turn advanced by one per request
\* and holds the turn record of each request.
C23_NoLostUpdate ==
    (\A r \in Requests : req[r].pc = "done")
        => /\ case.current_turn = MaxRequests
           /\ Len(case.turn_history) = MaxRequests

-----------------------------------------------------------------------------
(* Claims about hypothesis progress, evidence lists and statuses *)

\* the progress decision on the change of the stored likelihood from h to g
ProgressByStoredChange(h, g, turn) ==
    IF Abs(g.likelihood - h.likelihood) >= PROGRESS_THRESHOLD
    THEN /\ g.iterations_without_progress = 0
         /\ g.last_progress_at_turn = turn
    ELSE /\ g.iterations_without_progress = h.iterations_without_progress + 1
         /\ g.last_progress_at_turn = h.last_progress_at_turn

C28_EvidenceNoDuplicates ==
    /\ NoDuplicates(hyp.supporting_evidence)
    /\ NoDuplicates(hyp.refuting_evidence)

TerminalHypothesisStatus == {"validated", "refuted", "retired", "superseded"}

\* C29: once a hypothesis is VALIDATED, REFUTED, RETIRED or SUPERSEDED, no
\* operation of the engine changes its status; and a CAPTURED hypothesis is
\* never moved by an automatic transition (only by an explicit
\* refute_hypothesis).
C29_TerminalStatusFinal ==
    [][/\ hyp.status \in TerminalHypothesisStatus
            => hyp'.status = hyp.status
       /\ (hyp.status = "captured" /\ hlast'.op # "refute_hypothesis")
            => hyp'.status = "captured"]_vars

-----------------------------------------------------------------------------
(* Claims about alternative generation *)

\* the positions of the list whose hypothesis the call has to retire
MustRetire(hs, category) ==
    {i \in 1..Len(hs) : /\ hs[i].category = category
                         /\ hs[i].status = "active"
                         /\ hs[i].iterations_without_progress
                              >= RETIRE_STALLED_AFTER}

\* C31: force_alternative_generation completes on any hypothesis list and
\* returns the dominant category; on return every ACTIVE hypothesis of that
\* category with two or more stagnant iterations is RETIRED with a reason,
\* retired_count is the number of hypotheses whose status changed, and every
\* other hypothesis is unchanged.
C31_ForceAlternativeGeneration ==
    [][hres'.op = "force_alternative_generation"
       => /\ ~hres'.raised
          /\ hres'.dominant_category \in Categories
          /\ Len(hlist') = Len(hlist)
          /\ \A i \in 1..Len(hlist) :
                IF i \in MustRetire(hlist, hres'.dominant_category)
                THEN /\ hlist'[i].status = "retired"
                     /\ hlist'[i].retirement_reason # "none"
                ELSE hlist'[i] = hlist[i]
          /\ hres'.retired_count =
                Cardinality({i \in 1..Len(hlist) :
                               hlist'[i].status # hlist[i].status})]_vars

-----------------------------------------------------------------------------
(* Claims about the memory tiers *)

\* C32: after every update_memory call the warm tier holds at most
\* WARM_TIER_SIZE snapshots and the cold tier at most COLD_TIER_SIZE.
C32_WarmColdBounded ==
    /\ Len(mem.warm_snapshots) <= WARM_TIER_SIZE
    /\ Len(mem.cold_snapshots) <= COLD_TIER_SIZE

-----------------------------------------------------------------------------
(* Claims about attachments and verification *)

\* the category an Evidence record gets on a case with progress p
CategoryFor(p) ==
    CASE ~p.verification_complete -> "symptom_evidence"
      [] p.verification_complete /\ p.flags["solution_proposed"]
            -> "resolution_evidence"
      [] OTHER -> "causal_evidence"

-----------------------------------------------------------------------------
(* Claims about strict provider mode *)

\* the provider the task names is one of the configured ones
TaskProviderConfigured ==
    llm.config.task_provider \in 1..llm.config.providers

\* C35: with STRICT_PROVIDER_MODE on and a task-specific provider named,
\* generate invokes that provider only; when it is not configured or it
\* raises, generate raises RuntimeError and invokes no provider of the
\* automatic fallback chain.
C35_StrictModeNoFallback ==
    (llm.call.op = "generate" /\ StrictRouting)
        => /\ Len(llm.call.calls) <= 1
           /\ \A i \in 1..Len(llm.call.calls) :
                 llm.call.calls[i] = llm.config.task_provider
           /\ ~TaskProviderConfigured
                 => /\ llm.call.result = "raised"
                    /\ llm.call.error \in {"strict_mode", "no_providers"}
                    /\ llm.call.calls = <<>>
           /\ (TaskProviderConfigured /\ llm.call.task_outcome = "raise")
                 => /\ llm.call.result = "raised"
                    /\ llm.call.error = "strict_mode"
                    /\ llm.call.calls = <<llm.config.task_provider>>
           /\ (TaskProviderConfigured /\ llm.call.task_outcome = "ok")
                 => /\ llm.call.result = "returned"
                    /\ llm.call.content = llm.config.task_provider
                    /\ llm.call.calls = <<llm.config.task_provider>>

\* strict mode, the task's provider is not configured, and three healthy
\* providers of the chain were left alone
C35_Witness ==
    /\ llm.call.op = "generate" /\ StrictRouting
    /\ llm.config.providers = 3 /\ llm.config.task_provider = 4
    /\ \A i \in 1..3 : llm.call.outcomes[i] = "ok"
    /\ llm.call.result = "raised" /\ llm.call.error = "strict_mode"
    /\ llm.call.calls = <<>>

-----------------------------------------------------------------------------
(* Claims about degraded mode and stagnation *)

\* C36: from a case with no degraded mode and a counter of 0, whatever turns
\* follow, an active degraded mode implies turns_without_progress >= 3, and
\* right after a turn that made progress there is no degraded mode and the
\* counter is 0.
C36_DegradedImpliesStagnation ==
    [][/\ case'.degraded_mode.active
            => case'.turns_without_progress >= DEGRADED_AFTER_TURNS
       /\ (last'.op = "process_turn" /\ last'.saved /\ last'.progress_made)
            => /\ ~case'.degraded_mode.active
               /\ case'.degraded_mode = NoDegradedMode
               /\ case'.turns_without_progress = 0]_vars

\* three turns without progress, then a turn with progress: the degraded
\* mode entered on the third turn is gone
C36_Witness ==
    /\ last.op = "process_turn" /\ last.saved /\ last.progress_made
    /\ Len(case.turn_history) = 4
    /\ \A i \in 1..3 : ~case.turn_history[i].progress_made
    /\ ~case.degraded_mode.active
    /\ case.turns_without_progress = 0

-----------------------------------------------------------------------------
(* Claims about a failing LLM call *)

\* C37: when the provider's call raises during process_turn, the caller gets
\* a MilestoneEngineError, the case object is as it was on entry, the stored
\* case is unchanged and no save was attempted.
C37_LLMFailureLeavesCase ==
    [][(last'.op = "process_turn" /\ last'.raised = "llm")
       => /\ last'.error = "MilestoneEngineError"
          /\ last'.cause = "ProviderError"
          /\ ~last'.object_changed
          /\ case' = case
          /\ ~last'.saved /\ last'.save_calls = 0]_vars

\* the LLM call failed on an INVESTIGATING case that has two turns behind it
C37_Witness ==
    /\ last.op = "process_turn" /\ last.raised = "llm"
    /\ last.status_before = "investigating"
    /\ case.current_turn = 2 /\ Len(case.turn_history) = 2
    /\ last.save_calls = 0

-----------------------------------------------------------------------------
(* Claims about the direction of confidence changes *)

\* C38: on a hypothesis reached through link_evidence, record_hypothesis_test
\* and apply_confidence_decay, a link_evidence call with supports=False never
\* leaves the likelihood higher than it was before the call, and a call with
\* supports=True never leaves it lower.
C38_EvidenceDirection ==
    [][hlast'.op = "link_evidence"
       => /\ hlast'.result = "refutes" => hyp'.likelihood <= hyp.likelihood
          /\ hlast'.result = "supports" => hyp'.likelihood >= hyp.likelihood]_vars

-----------------------------------------------------------------------------
(* Claims about the validated-hypothesis queries *)

\* C39: on every hypothesis the engine's operations can produce,
\* has_validated_hypothesis is true exactly when get_validated_hypothesis
\* returns a hypothesis: every VALIDATED hypothesis has likelihood >= 0.70.
C39_ValidatedQueriesAgree ==
    /\ hlast.op = "validated_queries"
          => (hlast.result = "true" <=> hlast.arg = 1)
    /\ hyp.status = "validated" => hyp.likelihood >= VALIDATE_AT

-----------------------------------------------------------------------------
(* Claims about the order of the memory tiers *)

\* the iteration ranges read from cold, then warm, then hot memory
TierRanges(memory) ==
    [i \in 1..Len(memory.cold_snapshots) |->
        memory.cold_snapshots[i].iteration_range]
    \o [i \in 1..Len(memory.warm_snapshots) |->
        memory.warm_snapshots[i].iteration_range]
    \o [i \in 1..Len(memory.hot_memory) |->
        <<memory.hot_memory[i].iteration_number,
          memory.hot_memory[i].iteration_number>>]

\* the ranges of the sequence that cover iteration n
Covering(ranges, n) ==
    {i \in 1..Len(ranges) : ranges[i][1] <= n /\ n <= ranges[i][2]}

\* C40: after every update_memory call, the iteration ranges of the cold
\* snapshots, then the warm snapshots, then the hot iterations are strictly
\* increasing and cover no iteration twice; an appended iteration is in hot
\* memory or in exactly one snapshot, or it is older than everything still
\* held (its cold snapshot was pruned).
C40_TiersChronological ==
    LET ranges == TierRanges(mem)
    IN  /\ \A i \in 1..Len(ranges) : ranges[i][1] <= ranges[i][2]
        /\ \A i \in 1..(Len(ranges) - 1) : ranges[i][2] < ranges[i + 1][1]
        /\ \A n \in 1..mlast.count :
              /\ Cardinality(Covering(ranges, n)) <= 1
              /\ Covering(ranges, n) = {}
                    => \A i \in 1..Len(ranges) : n < ranges[i][1]

\* cold snapshots have been pruned, and all three tiers hold something
C40_Witness ==
    /\ mlast.op = "update_memory"
    /\ mem.cold_snapshots # <<>>
    /\ mem.warm_snapshots # <<>>
    /\ mem.hot_memory # <<>>
    /\ mem.cold_snapshots[1].iteration_range[1] > 1

====
